---- MODULE Spec2Model ----
(***************************************************************************)
(* The job worker (worker.py), the job store (jobs.py) and the concurrent  *)
(* scraper (scraper_async.py) of fbemail as state machines.                *)
(*                                                                         *)
(*   SpecJob     one job record in the store, the worker running it and    *)
(*               the dashboard setting its control field / deleting it.    *)
(*   SpecScrape  one call of scrape_multiple_websites: the scrape_one      *)
(*               tasks, their crawl sessions and the page tasks of a depth.*)
(*   SpecSeq     the sequential mode: one EmailScraper of get_emails_fb11  *)
(*               reused for the rows of a file (app.py, main).             *)
(*   SpecRun, SpecCtl, SpecFiles  the worker alone; with a dashboard whose *)
(*               calls are atomic; with several jobs in the directory.     *)
(*   SpecLive, SpecCrawl  the worker and one crawl session with fairness.  *)
(*   SpecQueue   worker_loop over a directory in which jobs keep being     *)
(*               created and deleted, with fairness.                       *)
(*   SpecOrder   the behaviours of SpecScrape and of SpecRun together.     *)
(*   SpecPhone   format_phone_number on a phone cell.                      *)
(*                                                                         *)
(* Strings that the code parses (URLs) are sequences of tokens: a scheme   *)
(* token, host tokens, path tokens.                                        *)
(***************************************************************************)
EXTENDS Integers, Sequences, FiniteSets, TLC

VARIABLES
    store,      \* the job file  jobs/<job_id>.json  (NoJob when it does not exist)
    outputs,    \* the files of outputs_dir, by name
    w,          \* the worker: position and locals of worker_loop / process_job_async
    d,          \* the dashboard: position and locals of its call of set_job_control
    env,        \* the environment of a job run: is the uploaded file readable
    h,          \* history of the run (observation only, never read by an action)
    sc,         \* one call of scrape_multiple_websites: inputs, tasks, results;
                \* or one sequential run over the rows of a file
    gets,       \* history: per target, the GETs issued (URL, how many times)
    fp,         \* calls of format_phone_number: the input and the values returned
    jobs        \* the jobs directory with several jobs, and what each job's run wrote

scrapevars == <<sc, gets>>
vars == <<store, outputs, w, d, env, h, sc, gets, fp, jobs>>

-----------------------------------------------------------------------------
(* Bounds of the model *)

MaxSheets == 2      \* longest selected_sheets list
MaxDashOps == 2     \* dashboard calls (set_job_control, delete_job) in a behaviour
MaxPauseOps == 3    \* dashboard calls in a behaviour of the fair specification
SmallRows == 2      \* rows of the small sheet
ExtraRows == 1      \* rows of the large sheet beyond one full batch

(* Program constants *)

BatchSize == 50
MAX_URLS_PER_DOMAIN == 15
ScrapeDepth == 2
ErrorMessageChars == 50

-----------------------------------------------------------------------------
(* URLs as token sequences; urlparse, get_domain, is_blocked_domain *)

SchemeTokens == {"http://", "https://"}

PathTok(n) == "/p" \o ToString(n)

\* paths ending in an extension of skip_extensions
SkippedPaths == {"/file.pdf", "/logo.png", "/clip.mp4"}

IsPathTok(t) == t \in {"/"} \cup {PathTok(n) : n \in 0..40} \cup SkippedPaths

\* str.lower() on a token
Lower(t) ==
    CASE t = "Acme.org" -> "acme.org"
      [] t = "WWW." -> "www."
      [] t = "Facebook.com" -> "facebook.com"
      [] t = "Norma" -> "norma"
      [] t = "Sentry" -> "sentry"
      [] OTHER -> t

NaN == <<"<nan>">>          \* a missing cell (float nan)
NonString == <<"<int>">>    \* a cell holding a number
EmptyString == <<>>

\* pd.isna(website) or not website or not isinstance(website, str)
IsMissing(website) == website = NaN \/ website = EmptyString \/ website = NonString

StartsWithScheme(url) == Len(url) >= 1 /\ url[1] \in SchemeTokens

RECURSIVE HostPrefix(_)
HostPrefix(s) ==
    IF s = <<>> \/ IsPathTok(Head(s)) THEN <<>>
    ELSE <<Head(s)>> \o HostPrefix(Tail(s))

\* urlparse(url).netloc: what follows "scheme://" up to the path; empty
\* when the string carries no "//"
Netloc(url) == IF StartsWithScheme(url) THEN HostPrefix(Tail(url)) ELSE <<>>

RECURSIVE DropWww(_)
DropWww(s) ==
    IF s = <<>> THEN <<>>
    ELSE IF Head(s) = "www." THEN DropWww(Tail(s))
    ELSE <<Head(s)>> \o DropWww(Tail(s))

LowerAll(s) == [i \in 1..Len(s) |-> Lower(s[i])]

\* netloc.lower().replace('www.', '')
GetDomain(url) == DropWww(LowerAll(Netloc(url)))

blocked_domains ==
    {"estatesales.net", "estatesales.org", "godaddy.com", "hibid.com",
     "bluemoonestatesales.com", "galleryauctions.com", "facebook.com",
     "twitter.com", "linkedin.com", "instagram.com"}

IsBlockedDomain(url) ==
    IF IsMissing(url) THEN FALSE
    ELSE \E i \in 1..Len(GetDomain(url)) : GetDomain(url)[i] \in blocked_domains

\* fetch_url / scrape_website: prefix the scheme when the string has none
NormalizeUrl(url) == IF StartsWithScheme(url) THEN url ELSE <<"https://">> \o url

-----------------------------------------------------------------------------
(* format_phone_number: a string is the sequence of its characters *)

Digits == {"0", "1", "2", "3", "4", "5", "6", "7", "8", "9"}

NoPhone == <<"<nan>">>      \* a missing cell (float nan)

RECURSIVE ReplacePlusOne(_)
\* cleaned.replace('+1', ''): the occurrences of "+1" from the left, not
\* overlapping
ReplacePlusOne(s) ==
    IF Len(s) < 2 THEN s
    ELSE IF s[1] = "+" /\ s[2] = "1" THEN ReplacePlusOne(SubSeq(s, 3, Len(s)))
    ELSE <<s[1]>> \o ReplacePlusOne(Tail(s))

RECURSIVE StripLeft(_)
StripLeft(s) == IF s = <<>> \/ Head(s) \in Digits THEN s ELSE StripLeft(Tail(s))

RECURSIVE StripRight(_)
StripRight(s) ==
    IF s = <<>> \/ s[Len(s)] \in Digits THEN s ELSE StripRight(SubSeq(s, 1, Len(s) - 1))

IsDigitString(s) == \A k \in 1..Len(s) : s[k] \in Digits

\* format_phone_number(phone)
FormatPhoneNumber(phone) ==
    IF phone = NoPhone THEN <<>>
    ELSE LET removed == SelectSeq(phone, LAMBDA c : c \notin {"(", ")", "-", " ", "."})
             replaced == ReplacePlusOne(removed)
             cleaned == StripRight(StripLeft(replaced))
         IN  IF Len(cleaned) = 10 /\ IsDigitString(cleaned)
             THEN <<"+", "1">> \o cleaned
             ELSE cleaned

NoPhoneCall == [n |-> 0]

-----------------------------------------------------------------------------
(* The web as the scraper sees it: what a GET of a URL returns *)

\* str(e) of an exception raised by the session: a short message and one of
\* one character more than scrape_one keeps
ShortMessage == [k \in 1..14 |-> "e"]
LongMessage == [k \in 1..(ErrorMessageChars + 1) |-> "e"]

NoPage == [ok |-> FALSE, text |-> <<>>, links |-> {}]

\* web.pages: URL -> [ok: the GET returns 200 with a body, text: the matches
\* of the email pattern in it, links: the hrefs of its anchors]; web.broken: the websites whose session
\* raises, each with str(e) as a sequence of characters
PageOf(web, url) == IF url \in DOMAIN web.pages THEN web.pages[url] ELSE NoPage

\* what fetch_url can report for a request that does not give a body
FetchFailures == {"Timeout", "HTTP 500", "Cannot connect to host"}

\* fetch_url(session, url): (url, text, None) for a 200, else (url, None,
\* error); down maps the URLs whose request fails in this run to the failure,
\* and a page the site does not serve answers 404
FetchUrl(web, down, url) ==
    IF url \in DOMAIN down THEN [url |-> url, html |-> FALSE, error |-> down[url]]
    ELSE IF PageOf(web, url).ok THEN [url |-> url, html |-> TRUE, error |-> "None"]
    ELSE [url |-> url, html |-> FALSE, error |-> "HTTP 404"]

\* the web of a run: the site with the outcome of fetch_url for every page
WebWith(web, down) ==
    [web EXCEPT !.pages = [u \in DOMAIN web.pages |->
                              [web.pages[u] EXCEPT !.ok = FetchUrl(web, down, u).html]]]

\* web.robots: status maps a host to what reading its robots.txt gives: "rules"
\* (a file was parsed), "forbidden" (401 or 403), "raises" (the read raises),
\* and a host not listed answers 404; disallow holds the URLs the rules
\* disallow for the user agent
RobotsStatus(web, url) ==
    IF Netloc(url) \in DOMAIN web.robots.status THEN web.robots.status[Netloc(url)]
    ELSE "missing"

\* the robots.txt of the URL's host was read and disallows the URL
Disallowed(web, url) == RobotsStatus(web, url) = "rules" /\ url \in web.robots.disallow

\* urljoin(base_url, href) for an absolute href or a rooted path
UrlJoin(base_url, href) ==
    IF StartsWithScheme(href) THEN href
    ELSE <<base_url[1]>> \o Netloc(base_url) \o href

\* the links of a fetched page collected whatever depth is left
PageLinks_AnyDepth(web, url, base_url, visited_urls, depth_left) ==
    IF PageOf(web, url).ok
    THEN {full_url \in {UrlJoin(base_url, href) : href \in PageOf(web, url).links} :
            /\ GetDomain(full_url) = GetDomain(base_url)
            /\ full_url \notin visited_urls}
    ELSE {}

\* the links collected also from a page whose fetch failed
PageLinks_FailedToo(web, url, base_url, visited_urls, depth_left) ==
    IF depth_left > 0
    THEN {full_url \in {UrlJoin(base_url, href) : href \in PageOf(web, url).links} :
            /\ GetDomain(full_url) = GetDomain(base_url)
            /\ full_url \notin visited_urls}
    ELSE {}

\* the links scrape_single_page returns for a fetched page
PageLinks(web, url, base_url, visited_urls, depth_left) ==
    IF PageOf(web, url).ok /\ depth_left > 0
    THEN {full_url \in {UrlJoin(base_url, href) : href \in PageOf(web, url).links} :
            /\ GetDomain(full_url) = GetDomain(base_url)
            /\ full_url \notin visited_urls}
    ELSE {}

\* "pattern in email" on the lower-cased address; an address is tokenised so
\* that a pattern occurs in it exactly when it is one of its tokens
Contains(email, pattern) == \E k \in 1..Len(email) : Lower(email[k]) = pattern

unwanted_patterns == {"wix", "example", "domain", "sentry", "webp", "jpg", "png", "gif", "svg"}

invalid_patterns ==
    {"example", "test", "admin@admin", "noreply", "no-reply", "webmaster", "postmaster"}

\* re.match of the basic pattern: the character class of extract_emails_from_text
\* also admits "|" in the last label, the basic pattern does not
MatchesBasicPattern(email) == \A k \in 1..Len(email) : email[k] # "|"

\* is_valid_email without the loop over unwanted_patterns
IsValidEmail_NoUnwanted(email) ==
    /\ MatchesBasicPattern(email)
    /\ ~ \E pattern \in invalid_patterns : Contains(email, pattern)

\* AsyncEmailScraper.is_valid_email
IsValidEmail(email) ==
    /\ MatchesBasicPattern(email)
    /\ ~ \E pattern \in unwanted_patterns : Contains(email, pattern)
    /\ ~ \E pattern \in invalid_patterns : Contains(email, pattern)

\* AsyncEmailScraper.extract_emails_from_text: text is the sequence of the
\* matches of re.findall, in order, repeats included
ExtractEmailsFromText(text) ==
    {email \in {text[k] : k \in 1..Len(text)} : IsValidEmail(email)}

\* html is truthy: emails = self.extract_emails_from_text(html)
PageEmails(web, url) ==
    IF PageOf(web, url).ok THEN ExtractEmailsFromText(PageOf(web, url).text) ELSE {}

RECURSIVE SetToSeq(_)
SetToSeq(S) ==
    IF S = {} THEN <<>>
    ELSE LET x == CHOOSE y \in S : TRUE IN <<x>> \o SetToSeq(S \ {x})

RECURSIVE Flatten(_)
Flatten(ss) == IF ss = <<>> THEN <<>> ELSE Head(ss) \o Flatten(Tail(ss))

\* the pages of one depth that pass the domain limit: all of them while the
\* count allows, else as many as the limit leaves (which ones depends on the
\* iteration order of a Python set)
WithinLimit(tasks, count) ==
    IF count + Cardinality(tasks) <= MAX_URLS_PER_DOMAIN THEN tasks
    ELSE CHOOSE S \in SUBSET tasks : Cardinality(S) = MAX_URLS_PER_DOMAIN - count

\* scrape_website run to completion from a frontier: the depth loop
RECURSIVE CrawlFrom(_, _, _, _, _, _, _, _)
CrawlFrom(web, base_url, current_depth_urls, visited_urls, count, emails, depth, max_depth) ==
    LET tasks == current_depth_urls \ visited_urls
        fetched == WithinLimit(tasks, count)
        visited2 == visited_urls \cup tasks
        emails2 == emails \cup UNION {PageEmails(web, u) : u \in fetched}
        next_depth_urls ==
            UNION {PageLinks(web, u, base_url, visited2, max_depth - depth) : u \in fetched}
    IN  IF depth > max_depth \/ tasks = {} THEN emails
        ELSE CrawlFrom(web, base_url, next_depth_urls, visited2,
                       count + Cardinality(fetched), emails2, depth + 1, max_depth)

\* AsyncEmailScraper.scrape_website(url, max_depth) run to completion
ScrapeWebsite(web, url, max_depth) ==
    IF IsMissing(url) \/ IsBlockedDomain(url) THEN {}
    ELSE CrawlFrom(web, NormalizeUrl(url), {NormalizeUrl(url)}, {}, 0, {}, 0, max_depth)

\* a record of the result list ('Phone Number' is the field Phone_Number)
Sentinel(data, website, email) ==
    [Company |-> data.company, Website |-> website,
     Phone_Number |-> FormatPhoneNumber(data.phone), Email |-> email, City |-> data.city]

\* scrape_one returning the list of records without the empty case
ScrapeOneReturn_NoEmptyCase(data, emails) ==
    [kind |-> "list",
     rows |-> [i \in 1..Cardinality(emails) |->
                 Sentinel(data, data.website, SetToSeq(emails)[i])]]

\* scrape_one returning one record per occurrence of an address, each
\* address occurring twice
ScrapeOneReturn_PerOccurrence(data, emails) ==
    IF emails # {}
    THEN [kind |-> "list",
          rows |-> [i \in 1..(2 * Cardinality(emails)) |->
                      Sentinel(data, data.website,
                               SetToSeq(emails)[((i - 1) % Cardinality(emails)) + 1])]]
    ELSE [kind |-> "dict",
          rows |-> <<Sentinel(data, data.website, <<"No", " email found">>)>>]

\* scrape_one after the session: a list of records, one per email, or the
\* single record 'No email found'
ScrapeOneReturn(data, emails) ==
    IF emails # {}
    THEN [kind |-> "list",
          rows |-> [i \in 1..Cardinality(emails) |->
                      Sentinel(data, data.website, SetToSeq(emails)[i])]]
    ELSE [kind |-> "dict",
          rows |-> <<Sentinel(data, data.website, <<"No", " email found">>)>>]

\* scrape_one before the session without the test of a missing website
ScrapeOneEarly_NoMissingCheck(data) ==
    IF IsBlockedDomain(data.website)
        THEN [kind |-> "dict",
              rows |-> <<Sentinel(data, data.website, <<"Blocked", " domain">>)>>]
    ELSE [kind |-> "crawl", rows |-> <<>>]

\* scrape_one before the session: the record it returns without crawling
\* (rows is empty when it goes on to crawl)
ScrapeOneEarly(data) ==
    IF IsMissing(data.website)
        THEN [kind |-> "dict",
              rows |-> <<Sentinel(data, <<"No website">>, <<"No", " website provided">>)>>]
    ELSE IF IsBlockedDomain(data.website)
        THEN [kind |-> "dict",
              rows |-> <<Sentinel(data, data.website, <<"Blocked", " domain">>)>>]
    ELSE [kind |-> "crawl", rows |-> <<>>]

\* s[:n]
Truncate(s, n) == SubSeq(s, 1, IF Len(s) < n THEN Len(s) ELSE n)

\* except Exception as e: the record 'Error: <message>' with the whole message
ScrapeOneError_Untruncated(data, message) ==
    [kind |-> "dict",
     rows |-> <<Sentinel(data, data.website, <<"Error", ": ">> \o message)>>]

\* except Exception as e: the record f'Error: {str(e)[:50]}'
ScrapeOneError(data, message) ==
    [kind |-> "dict",
     rows |-> <<Sentinel(data, data.website,
                         <<"Error", ": ">> \o Truncate(message, ErrorMessageChars))>>]

\* what scrape_one(data) returns when run to completion
ScrapeOne(web, data) ==
    IF ScrapeOneEarly(data).kind # "crawl" THEN ScrapeOneEarly(data).rows
    ELSE IF data.website \in DOMAIN web.broken
        THEN ScrapeOneError(data, web.broken[data.website]).rows
    ELSE ScrapeOneReturn(data, ScrapeWebsite(web, data.website, ScrapeDepth)).rows

\* scrape_multiple_websites(websites_data) run to completion: the results
\* of the targets in input order
ScrapeMultipleWebsites(web, websites_data) ==
    Flatten([i \in 1..Len(websites_data) |-> ScrapeOne(web, websites_data[i])])

-----------------------------------------------------------------------------
(* The uploaded workbook of the job and the sites its rows name *)

JobWeb ==
    [pages |->
        (<<"https://", "acme.org">> :>
            [ok |-> TRUE, text |-> << <<"info", "@acme.org">>, <<"Norma", "@acme.org">> >>, links |-> {}])
        @@ (<<"https://", "void.net">> :>
            [ok |-> TRUE, text |-> <<>>, links |-> {}])
        @@ (<<"https://", "www.", "facebook.com">> :>
            [ok |-> TRUE, text |-> << <<"press", "@fb.com">> >>, links |-> {}]),
     broken |-> (<<"https://", "down.net">> :> ShortMessage)]

\* the Website cell of row r
RowWebsite(r) ==
    CASE r % 5 = 1 -> <<"acme.org">>
      [] r % 5 = 2 -> NaN
      [] r % 5 = 3 -> <<"https://", "www.", "facebook.com">>
      [] r % 5 = 4 -> <<"https://", "void.net">>
      [] OTHER -> <<"https://", "down.net">>

\* the 'Phone Number' cell of row r
RowPhone(r) ==
    IF r % 2 = 1 THEN <<"(", "5", "5", "5", ")", " ", "0", "1", "2", "-", "3", "4", "5", "6">>
    ELSE NoPhone

\* excel_file: its sheets in order (Python index = position - 1)
Workbook ==
    << [name |-> "A", columns |-> TRUE, nrows |-> SmallRows],
       [name |-> "B", columns |-> TRUE, nrows |-> BatchSize + ExtraRows],
       [name |-> "C", columns |-> FALSE, nrows |-> SmallRows],
       [name |-> "D", columns |-> TRUE, nrows |-> 0] >>

SheetIndexes == 0..Len(Workbook)      \* the last one is out of range

\* websites_data built from df.iterrows() of a sheet
WebsitesData(sheet) ==
    [r \in 1..sheet.nrows |->
        [company |-> <<sheet.name, ToString(r)>>, website |-> RowWebsite(r),
         phone |-> RowPhone(r), city |-> sheet.name]]

Filename == "f.xlsx"
PartialName == "partial_" \o Filename
ScrapedName == "scraped_" \o Filename

-----------------------------------------------------------------------------
(* The job store: jobs.py *)

NoJob == [exists |-> FALSE]

NoCall == [phase |-> "none"]

\* an empty jobs directory
NoJobs == [dir |-> <<>>, focus |-> 0, wrote |-> <<>>]

Terminal == {"completed", "failed", "stopped"}

\* JobManager.create_job
NewJob(selected_sheets) ==
    [exists |-> TRUE, filename |-> Filename, selected_sheets |-> selected_sheets,
     status |-> "pending", control |-> "run",
     started_at |-> "None", completed_at |-> "None",
     progress |-> [n |-> 0, d |-> 1], current_sheet |-> "None",
     current_row |-> 0, total_rows |-> 0, total_emails |-> 0,
     error |-> "None", output_file |-> "None"]

\* job.update(updates)
ApplyUpdates(job, updates) == updates @@ job

\* JobManager.get_job_control
GetJobControl == IF store.exists THEN store.control ELSE "run"

\* str.startswith(prefix) on the first token of an address
TokenStartsWith(t, prefix) ==
    \/ t = prefix
    \/ <<t, prefix>> \in {<<"Norma", "No">>, <<"Errorlog", "Error">>, <<"Blockedlist", "Blocked">>}

\* not r['Email'].startswith(('No', 'Error', 'Blocked'))
CountsAsEmail(email) ==
    ~ \E prefix \in {"No", "Error", "Blocked"} : TokenStartsWith(email[1], prefix)

TotalEmails(results) ==
    Cardinality({i \in 1..Len(results) : CountsAsEmail(results[i].Email)})

NoFile == [written |-> FALSE, rows |-> <<>>]

-----------------------------------------------------------------------------
(* The worker: worker.py *)

NoUpdates == [none |-> TRUE]

InitW ==
    [pc |-> "idle", ret |-> "none", upd |-> NoUpdates, snap |-> NoJob, job |-> NoJob,
     sheet_num |-> 0, batch_start |-> 0, all_results |-> <<>>]

InitH ==
    [stop_seen |-> FALSE, stop_results |-> <<>>, stop_kept |-> FALSE,
     pause_seen |-> FALSE, resumed |-> FALSE, scraped |-> {},
     raised |-> FALSE, runs |-> 0, owes_paused |-> FALSE, owes_run |-> FALSE,
     in_flight |-> FALSE, last_progress |-> [n |-> 0, d |-> 1],
     stop_issued |-> FALSE, last_set |-> "run", deleted |-> FALSE]

\* the start of update_job(job_id, updates); control returns at ret
CallUpdate(updates, ret) ==
    [w EXCEPT !.pc = "update_read", !.upd = updates, !.ret = ret]

\* except Exception as e: update_job(FAILED, error = str(e))
Raise(msg) ==
    CallUpdate([status |-> "failed", completed_at |-> "t", error |-> msg], "done")

StoreKept(s) == s.exists /\ s.control = "stop"

\* worker_loop: get_pending_jobs is not empty; run the job
WorkerLoop ==
    /\ w.pc \in {"idle", "done"}
    /\ store.exists /\ store.status = "pending"
    /\ w' = [InitW EXCEPT !.pc = "start"]
    /\ h' = [InitH EXCEPT !.runs = h.runs + 1, !.stop_issued = h.stop_issued,
                          !.last_set = h.last_set, !.deleted = h.deleted,
                          !.last_progress = h.last_progress]
    /\ UNCHANGED <<store, outputs, d, env, jobs, fp, sc, gets>>

\* process_job_async: job = get_job(job_id); update to processing
ProcessJobStart ==
    /\ w.pc = "start"
    /\ IF ~store.exists
       THEN w' = [w EXCEPT !.pc = "done"]
       ELSE w' = [CallUpdate([status |-> "processing", started_at |-> "t"], "open")
                    EXCEPT !.job = [exists |-> TRUE, filename |-> store.filename,
                                    selected_sheets |-> store.selected_sheets]]
    /\ UNCHANGED <<store, outputs, d, env, jobs, fp, h, sc, gets>>

\* update_job: job = self.get_job(job_id)
UpdateJobRead ==
    /\ w.pc = "update_read"
    /\ w' = [w EXCEPT !.pc = "update_write", !.snap = store]
    /\ UNCHANGED <<store, outputs, d, env, jobs, fp, h, sc, gets>>

\* update_job: if job: job.update(updates); json.dump(job, f)
UpdateJobWrite ==
    /\ w.pc = "update_write"
    /\ store' = IF w.snap.exists THEN ApplyUpdates(w.snap, w.upd) ELSE store
    /\ w' = [w EXCEPT !.pc = w.ret, !.ret = "none", !.upd = NoUpdates, !.snap = NoJob]
    /\ h' = [h EXCEPT !.stop_kept = h.stop_kept /\ StoreKept(store'),
                      !.owes_paused = h.owes_paused /\ "status" \notin DOMAIN w.upd,
                      !.last_progress = IF w.snap.exists /\ "progress" \in DOMAIN w.upd
                                        THEN w.upd.progress ELSE h.last_progress]
    /\ UNCHANGED <<outputs, d, env, jobs, fp, sc, gets>>

\* excel_file = pd.ExcelFile(filepath); all_results = []
OpenExcel ==
    /\ w.pc = "open"
    /\ IF env.readable
       THEN /\ w' = [w EXCEPT !.pc = "sheet_loop", !.sheet_num = 0, !.all_results = <<>>]
            /\ h' = h
       ELSE /\ w' = Raise("cannot open file")
            /\ h' = [h EXCEPT !.raised = TRUE]
    /\ UNCHANGED <<store, outputs, d, env, jobs, fp, sc, gets>>

SelectedSheets == w.job.selected_sheets
TotalSheets == Len(SelectedSheets)
SheetIdx == SelectedSheets[w.sheet_num + 1]
CurrentSheet == Workbook[SheetIdx + 1]

\* the head of the sheet loop and its control checkpoint
SheetCheckpoint ==
    /\ w.pc = "sheet_loop"
    /\ IF w.sheet_num >= TotalSheets
       THEN w' = [w EXCEPT !.pc = "final"] /\ h' = h
       ELSE IF SheetIdx + 1 > Len(Workbook)
       THEN w' = Raise("list index out of range") /\ h' = [h EXCEPT !.raised = TRUE]
       ELSE CASE GetJobControl = "stop" ->
                    /\ w' = [w EXCEPT !.pc = "stop"]
                    /\ h' = IF h.stop_seen THEN h
                            ELSE [h EXCEPT !.stop_seen = TRUE, !.stop_kept = (d.pc = "idle"),
                                           !.stop_results = w.all_results]
              [] GetJobControl = "pause" ->
                    /\ w' = CallUpdate([status |-> "paused"], "pause_poll")
                    /\ h' = [h EXCEPT !.pause_seen = TRUE, !.owes_run = TRUE,
                                      !.owes_paused = (store.status = "processing")]
              [] OTHER ->
                    /\ w' = [w EXCEPT !.pc = "progress"]
                    /\ h' = [h EXCEPT !.owes_run = FALSE]
    /\ UNCHANGED <<store, outputs, d, env, jobs, fp, sc, gets>>

\* the pause loop giving up its wait: a poll that reads pause resumes the job
PausePoll_TimesOut ==
    /\ w.pc = "pause_poll"
    /\ CASE GetJobControl = "stop" ->
                /\ w' = [w EXCEPT !.pc = "stop"]
                /\ h' = IF h.stop_seen THEN h
                        ELSE [h EXCEPT !.stop_seen = TRUE, !.stop_kept = (d.pc = "idle"),
                                       !.stop_results = w.all_results]
          [] OTHER ->
                /\ w' = CallUpdate([status |-> "processing"], "progress")
                /\ h' = [h EXCEPT !.resumed = TRUE, !.owes_run = FALSE]
    /\ UNCHANGED <<store, outputs, d, env, jobs, fp, sc, gets>>

\* while True: sleep(2); control = get_job_control(job_id)
PausePoll ==
    /\ w.pc = "pause_poll"
    /\ CASE GetJobControl = "run" ->
                /\ w' = CallUpdate([status |-> "processing"], "progress")
                /\ h' = [h EXCEPT !.resumed = TRUE, !.owes_run = FALSE]
          [] GetJobControl = "stop" ->
                /\ w' = [w EXCEPT !.pc = "stop"]
                /\ h' = IF h.stop_seen THEN h
                        ELSE [h EXCEPT !.stop_seen = TRUE, !.stop_kept = (d.pc = "idle"),
                                       !.stop_results = w.all_results]
          [] OTHER -> w' = w /\ h' = h
    /\ UNCHANGED <<store, outputs, d, env, jobs, fp, sc, gets>>

\* the stop branch: save_partial_results when there are results, then STOPPED
StopHandling ==
    /\ w.pc = "stop"
    /\ IF w.all_results = <<>>
       THEN /\ w' = CallUpdate([status |-> "stopped", completed_at |-> "t"], "done")
            /\ UNCHANGED <<outputs, h>>
       ELSE IF ~store.exists
       THEN /\ w' = Raise("'NoneType' object is not subscriptable")
            /\ h' = [h EXCEPT !.raised = TRUE]
            /\ UNCHANGED outputs
       ELSE \E write_ok \in BOOLEAN :
              IF write_ok
              THEN /\ outputs' = [outputs EXCEPT !["partial_" \o store.filename] =
                                     [written |-> TRUE, rows |-> w.all_results]]
                   /\ w' = CallUpdate([total_emails |-> TotalEmails(w.all_results),
                                       total_rows |-> Len(w.all_results),
                                       output_file |-> "partial_" \o store.filename],
                                      "stop_status")
                   /\ h' = h
              ELSE /\ w' = Raise("cannot write output")
                   /\ h' = [h EXCEPT !.raised = TRUE]
                   /\ UNCHANGED outputs
    /\ UNCHANGED <<store, d, env, jobs, fp, sc, gets>>

\* after save_partial_results: update_job(STOPPED); return
StopStatus ==
    /\ w.pc = "stop_status"
    /\ w' = CallUpdate([status |-> "stopped", completed_at |-> "t"], "done")
    /\ UNCHANGED <<store, outputs, d, env, jobs, fp, h, sc, gets>>

\* update_job(current_sheet, progress = sheet_num / total_sheets * 100)
SheetProgress ==
    /\ w.pc = "progress"
    /\ w' = CallUpdate([current_sheet |-> CurrentSheet.name,
                        progress |-> [n |-> w.sheet_num * 100, d |-> TotalSheets]],
                       "parse")
    /\ UNCHANGED <<store, outputs, d, env, jobs, fp, h, sc, gets>>

\* df = excel_file.parse(sheet_name); the column check; total_rows
ParseSheet ==
    /\ w.pc = "parse"
    /\ IF ~CurrentSheet.columns
       THEN w' = [w EXCEPT !.pc = "sheet_loop", !.sheet_num = w.sheet_num + 1]
       ELSE w' = [CallUpdate([total_rows |-> CurrentSheet.nrows], "batch_loop")
                    EXCEPT !.batch_start = 0]
    /\ UNCHANGED <<store, outputs, d, env, jobs, fp, h, sc, gets>>

\* the head of the batch loop and its control checkpoint
BatchCheckpoint ==
    /\ w.pc = "batch_loop"
    /\ IF w.batch_start >= CurrentSheet.nrows
       THEN /\ w' = [w EXCEPT !.pc = "sheet_loop", !.sheet_num = w.sheet_num + 1]
            /\ h' = h
       ELSE IF GetJobControl \in {"stop", "pause"}
       THEN /\ w' = [w EXCEPT !.pc = "sheet_loop", !.sheet_num = w.sheet_num + 1]
            /\ h' = IF GetJobControl = "stop"
                    THEN (IF h.stop_seen THEN h
                          ELSE [h EXCEPT !.stop_seen = TRUE, !.stop_kept = (d.pc = "idle"),
                                         !.stop_results = w.all_results])
                    ELSE [h EXCEPT !.pause_seen = TRUE, !.owes_run = TRUE,
                                   !.owes_paused = (store.status = "processing")]
       ELSE /\ w' = [w EXCEPT !.pc = "scrape"]
            /\ h' = [h EXCEPT !.owes_run = FALSE]
    /\ UNCHANGED <<store, outputs, d, env, jobs, fp, sc, gets>>

BatchEnd ==
    IF w.batch_start + BatchSize < CurrentSheet.nrows
    THEN w.batch_start + BatchSize ELSE CurrentSheet.nrows

\* batch_data = websites_data[batch_start:batch_end]; the call of
\* scrape_multiple_websites(batch_data) starts and the worker awaits it
ScrapeBatch ==
    /\ w.pc = "scrape"
    /\ w' = [w EXCEPT !.pc = "scraping"]
    /\ UNCHANGED <<store, outputs, d, env, jobs, fp, h, sc, gets>>

\* the call cut short: the last record of the batch is not appended
BatchReturn_Truncated ==
    /\ w.pc = "scraping"
    /\ LET batch_data == SubSeq(WebsitesData(CurrentSheet), w.batch_start + 1, BatchEnd)
           batch_results == ScrapeMultipleWebsites(JobWeb, batch_data)
       IN  w' = [CallUpdate(
                    [progress |-> [n |-> (w.sheet_num * CurrentSheet.nrows + BatchEnd) * 100,
                                   d |-> CurrentSheet.nrows * TotalSheets],
                     current_row |-> BatchEnd],
                    "batch_loop")
                 EXCEPT !.all_results = w.all_results \o SubSeq(batch_results, 1, Len(batch_results) - 1),
                        !.batch_start = w.batch_start + BatchSize]
    /\ h' = [h EXCEPT !.scraped = h.scraped \cup {<<w.sheet_num, w.batch_start>>}]
    /\ UNCHANGED <<store, outputs, d, env, jobs, fp, sc, gets>>

\* the call returns: all_results.extend(batch_results); update progress
BatchReturn ==
    /\ w.pc = "scraping"
    /\ LET batch_data == SubSeq(WebsitesData(CurrentSheet), w.batch_start + 1, BatchEnd)
           batch_results == ScrapeMultipleWebsites(JobWeb, batch_data)
       IN  w' = [CallUpdate(
                    [progress |-> [n |-> (w.sheet_num * CurrentSheet.nrows + BatchEnd) * 100,
                                   d |-> CurrentSheet.nrows * TotalSheets],
                     current_row |-> BatchEnd],
                    "batch_loop")
                 EXCEPT !.all_results = w.all_results \o batch_results,
                        !.batch_start = w.batch_start + BatchSize]
    /\ h' = [h EXCEPT !.scraped = h.scraped \cup {<<w.sheet_num, w.batch_start>>}]
    /\ UNCHANGED <<store, outputs, d, env, jobs, fp, sc, gets>>

\* the end of the run without the branch on the empty result list
SaveFinal_NoEmptyCheck ==
    /\ w.pc = "final"
    /\ \E write_ok \in BOOLEAN :
          IF write_ok
          THEN /\ outputs' = [outputs EXCEPT !["scraped_" \o w.job.filename] =
                                 [written |-> TRUE, rows |-> w.all_results]]
               /\ w' = CallUpdate([status |-> "completed", completed_at |-> "t",
                                   progress |-> [n |-> 100, d |-> 1],
                                   total_emails |-> TotalEmails(w.all_results),
                                   total_rows |-> Len(w.all_results),
                                   output_file |-> "scraped_" \o w.job.filename],
                                  "done")
               /\ h' = h
          ELSE /\ w' = Raise("cannot write output")
               /\ h' = [h EXCEPT !.raised = TRUE]
               /\ UNCHANGED outputs
    /\ UNCHANGED <<store, d, env, jobs, fp, sc, gets>>

\* after the sheet loop: save the final results, COMPLETED; or FAILED
SaveFinal ==
    /\ w.pc = "final"
    /\ IF w.all_results = <<>>
       THEN /\ w' = CallUpdate([status |-> "failed", completed_at |-> "t",
                                error |-> "No results found"], "done")
            /\ UNCHANGED <<outputs, h>>
       ELSE \E write_ok \in BOOLEAN :
              IF write_ok
              THEN /\ outputs' = [outputs EXCEPT !["scraped_" \o w.job.filename] =
                                     [written |-> TRUE, rows |-> w.all_results]]
                   /\ w' = CallUpdate([status |-> "completed", completed_at |-> "t",
                                       progress |-> [n |-> 100, d |-> 1],
                                       total_emails |-> TotalEmails(w.all_results),
                                       total_rows |-> Len(w.all_results),
                                       output_file |-> "scraped_" \o w.job.filename],
                                      "done")
                   /\ h' = h
              ELSE /\ w' = Raise("cannot write output")
                   /\ h' = [h EXCEPT !.raised = TRUE]
                   /\ UNCHANGED outputs
    /\ UNCHANGED <<store, d, env, jobs, fp, sc, gets>>

-----------------------------------------------------------------------------
(* The dashboard: set_job_control and delete_job of jobs.py *)

\* ops counts the calls made, max is the number of calls a behaviour may make
InitD == [pc |-> "idle", snap |-> NoJob, c |-> "run", ops |-> 0, max |-> MaxDashOps]

\* set_job_control -> update_job: job = self.get_job(job_id)
SetJobControlRead(control) ==
    /\ d.pc = "idle"
    /\ d.ops < d.max
    /\ d' = [d EXCEPT !.pc = "write", !.snap = store, !.c = control, !.ops = d.ops + 1]
    /\ h' = [h EXCEPT !.stop_kept = FALSE]
    /\ UNCHANGED <<store, outputs, w, env, jobs, fp, sc, gets>>

\* set_job_control -> update_job: job.update({'control': ...}); json.dump
SetJobControlWrite ==
    /\ d.pc = "write"
    /\ store' = IF d.snap.exists THEN ApplyUpdates(d.snap, [control |-> d.c]) ELSE store
    /\ d' = [d EXCEPT !.pc = "idle", !.snap = NoJob]
    /\ h' = [h EXCEPT !.stop_kept = h.stop_kept /\ StoreKept(store'),
                      !.stop_issued = h.stop_issued \/ d.c = "stop",
                      !.last_set = IF d.snap.exists THEN d.c ELSE h.last_set,
                      !.in_flight = h.in_flight \/
                                    (w.pc = "scraping" /\ d.snap.exists /\ d.c # "run")]
    /\ UNCHANGED <<outputs, w, env, jobs, fp, sc, gets>>

\* set_job_control(job_id, control) run from its read to its write with no
\* step of the worker in between
SetJobControl(control) ==
    /\ d.pc = "idle"
    /\ d.ops < d.max
    /\ store' = IF store.exists THEN ApplyUpdates(store, [control |-> control]) ELSE store
    /\ d' = [d EXCEPT !.c = control, !.ops = d.ops + 1]
    /\ h' = [h EXCEPT !.stop_kept = FALSE,
                      !.stop_issued = h.stop_issued \/ control = "stop",
                      !.last_set = IF store.exists THEN control ELSE h.last_set,
                      !.in_flight = h.in_flight \/
                                    (w.pc = "scraping" /\ store.exists /\ control # "run")]
    /\ UNCHANGED <<outputs, w, env, jobs, fp, sc, gets>>

\* delete_job: os.remove(job_file)
DeleteJob ==
    /\ d.pc = "idle"
    /\ d.ops < d.max
    /\ store.exists
    /\ store' = NoJob
    /\ d' = [d EXCEPT !.ops = d.ops + 1]
    /\ h' = [h EXCEPT !.stop_kept = FALSE, !.deleted = TRUE]
    /\ UNCHANGED <<outputs, w, env, jobs, fp, sc, gets>>

-----------------------------------------------------------------------------
(* SpecJob *)

RECURSIVE SeqsUpTo(_, _)
SeqsUpTo(S, n) ==
    IF n = 0 THEN {<<>>}
    ELSE SeqsUpTo(S, n - 1) \cup {Append(s, x) : s \in SeqsUpTo(S, n - 1), x \in S}

InitJob ==
    /\ \E selected_sheets \in SeqsUpTo(SheetIndexes, MaxSheets) :
          store = NewJob(selected_sheets)
    /\ outputs = [name \in {PartialName, ScrapedName} |-> NoFile]
    /\ w = InitW
    /\ d = InitD
    /\ env \in [readable : BOOLEAN]
    /\ h = InitH
    /\ sc = NoCall
    /\ gets = <<>>
    /\ fp = NoPhoneCall
    /\ jobs = NoJobs

NextJob ==
    \/ WorkerLoop
    \/ ProcessJobStart
    \/ UpdateJobRead
    \/ UpdateJobWrite
    \/ OpenExcel
    \/ SheetCheckpoint
    \/ PausePoll
    \/ StopHandling
    \/ StopStatus
    \/ SheetProgress
    \/ ParseSheet
    \/ BatchCheckpoint
    \/ ScrapeBatch
    \/ BatchReturn
    \/ SaveFinal
    \/ \E control \in {"run", "pause", "stop"} : SetJobControlRead(control)
    \/ SetJobControlWrite
    \/ DeleteJob

SpecJob == InitJob /\ [][NextJob]_vars

(* The worker alone: no call of the dashboard, so control is "run" throughout
   and the pause and stop branches are never entered *)
NextRun ==
    \/ WorkerLoop
    \/ ProcessJobStart
    \/ UpdateJobRead
    \/ UpdateJobWrite
    \/ OpenExcel
    \/ SheetCheckpoint
    \/ SheetProgress
    \/ ParseSheet
    \/ BatchCheckpoint
    \/ ScrapeBatch
    \/ BatchReturn
    \/ SaveFinal

SpecRun == InitJob /\ [][NextRun]_vars

(* The worker and the dashboard on a job over the sheets with rows: the small
   sheet and the sheet of more than one batch, file readable *)
InitCtl ==
    /\ \E selected_sheets \in SeqsUpTo({0, 1}, MaxSheets) :
          store = NewJob(selected_sheets)
    /\ outputs = [name \in {PartialName, ScrapedName} |-> NoFile]
    /\ w = InitW
    /\ d = InitD
    /\ env = [readable |-> TRUE]
    /\ h = InitH
    /\ sc = NoCall
    /\ gets = <<>>
    /\ fp = NoPhoneCall
    /\ jobs = NoJobs

NextCtl ==
    \/ WorkerLoop
    \/ ProcessJobStart
    \/ UpdateJobRead
    \/ UpdateJobWrite
    \/ OpenExcel
    \/ SheetCheckpoint
    \/ PausePoll
    \/ StopHandling
    \/ StopStatus
    \/ SheetProgress
    \/ ParseSheet
    \/ BatchCheckpoint
    \/ ScrapeBatch
    \/ BatchReturn
    \/ SaveFinal
    \/ \E control \in {"run", "pause", "stop"} : SetJobControl(control)
    \/ DeleteJob

SpecCtl == InitCtl /\ [][NextCtl]_vars

(* The same with fairness: worker_loop is a running process and every await
   of the worker returns, so a step of the worker that stays possible is
   taken (asyncio.sleep(2) of the pause loop returns, so the loop polls
   again), and the call of scrape_multiple_websites returns when every fetch
   returns. The dashboard is a user: no call of it is ever required. *)
WorkerStep ==
    \/ WorkerLoop
    \/ ProcessJobStart
    \/ UpdateJobRead
    \/ UpdateJobWrite
    \/ OpenExcel
    \/ SheetCheckpoint
    \/ PausePoll
    \/ StopHandling
    \/ StopStatus
    \/ SheetProgress
    \/ ParseSheet
    \/ BatchCheckpoint
    \/ ScrapeBatch
    \/ SaveFinal

\* await scrape_multiple_websites(batch_data) returns
EveryFetchReturns == (w.pc = "scraping") ~> (w.pc # "scraping")

InitLive ==
    /\ \E selected_sheets \in SeqsUpTo({0, 1}, MaxSheets) :
          store = NewJob(selected_sheets)
    /\ outputs = [name \in {PartialName, ScrapedName} |-> NoFile]
    /\ w = InitW
    /\ d = [InitD EXCEPT !.max = MaxPauseOps]
    /\ env = [readable |-> TRUE]
    /\ h = InitH
    /\ sc = NoCall
    /\ gets = <<>>
    /\ fp = NoPhoneCall
    /\ jobs = NoJobs

SpecLive == InitLive /\ [][NextCtl]_vars /\ WF_vars(WorkerStep) /\ EveryFetchReturns

-----------------------------------------------------------------------------
(* SpecFiles: several jobs in the jobs directory and one outputs directory. *)
(* store is the file of the job the worker has picked (job jobs.focus);     *)
(* jobs.dir holds the files of the jobs as created, in order of creation;   *)
(* jobs.wrote what a job left in the outputs directory when the worker      *)
(* turned to the next job.                                                   *)

MaxJobs == 2        \* jobs created in a behaviour

Filenames == {"f.xlsx", "g.xlsx"}

OutputNames == {prefix \o filename : prefix \in {"partial_", "scraped_"}, filename \in Filenames}

\* JobManager.create_job(filename, selected_sheets); the job_id is the
\* position in jobs.dir (uuid4 values are taken as distinct)
CreateJob(filename, selected_sheets) ==
    /\ Len(jobs.dir) < MaxJobs
    /\ jobs' = [jobs EXCEPT !.dir = Append(@, [NewJob(selected_sheets) EXCEPT
                                                 !.filename = filename])]
    /\ UNCHANGED <<store, outputs, w, d, env, fp, h, sc, gets>>

\* the jobs whose file says pending and that the worker has not picked yet
PendingJobs == DOMAIN jobs.dir \ (DOMAIN jobs.wrote \cup {jobs.focus})

\* what the picked job has left in the outputs directory
Wrote ==
    IF store.exists /\ store.output_file # "None"
    THEN [name |-> store.output_file, rows |-> outputs[store.output_file].rows]
    ELSE [name |-> "None", rows |-> <<>>]

\* worker_loop: job = get_pending_jobs()[0] once the job picked before has
\* been run; the pending jobs are sorted by created_at, newest first
PickJob ==
    /\ w.pc \in {"idle", "done"}
    /\ ~(store.exists /\ store.status = "pending")
    /\ PendingJobs # {}
    /\ LET job_id == CHOOSE job_id \in PendingJobs : \A other \in PendingJobs : other <= job_id
       IN  /\ store' = jobs.dir[job_id]
           /\ jobs' = [jobs EXCEPT !.focus = job_id,
                                   !.wrote = IF jobs.focus = 0 THEN @
                                             ELSE (jobs.focus :> Wrote) @@ @]
    /\ UNCHANGED <<outputs, w, d, env, fp, h, sc, gets>>

InitFiles ==
    /\ store = NoJob
    /\ outputs = [name \in OutputNames |-> NoFile]
    /\ w = InitW
    /\ d = InitD
    /\ env = [readable |-> TRUE]
    /\ h = InitH
    /\ sc = NoCall
    /\ gets = <<>>
    /\ fp = NoPhoneCall
    /\ jobs = NoJobs

NextFiles ==
    \/ \E filename \in Filenames, selected_sheets \in SeqsUpTo({0}, MaxSheets) \ {<<>>} :
          CreateJob(filename, selected_sheets)
    \/ PickJob
    \/ WorkerLoop
    \/ ProcessJobStart
    \/ UpdateJobRead
    \/ UpdateJobWrite
    \/ OpenExcel
    \/ SheetCheckpoint
    \/ PausePoll
    \/ StopHandling
    \/ StopStatus
    \/ SheetProgress
    \/ ParseSheet
    \/ BatchCheckpoint
    \/ ScrapeBatch
    \/ BatchReturn
    \/ SaveFinal
    \/ \E control \in {"run", "pause", "stop"} : SetJobControl(control)

SpecFiles == InitFiles /\ [][NextFiles]_vars

\* the jobs that have written an output, with the name they wrote: those the
\* worker has left behind and the one it has picked
OutputOf(job_id) ==
    IF job_id = jobs.focus THEN Wrote.name
    ELSE IF job_id \in DOMAIN jobs.wrote THEN jobs.wrote[job_id].name
    ELSE "None"

\* C25: two distinct jobs never write their output under the same name, the
\* output a job has written is not overwritten by another job (also when both
\* were created from the same filename), and the partial and the full output
\* of a job have different names.
C25_OutputNamesDistinct ==
    /\ \A a \in DOMAIN jobs.dir : \A b \in DOMAIN jobs.dir :
          (a # b /\ OutputOf(a) # "None") => OutputOf(a) # OutputOf(b)
    /\ \A a \in DOMAIN jobs.wrote :
          jobs.wrote[a].name # "None" =>
              outputs[jobs.wrote[a].name].rows = jobs.wrote[a].rows
    /\ \A filename \in Filenames : "partial_" \o filename # "scraped_" \o filename

-----------------------------------------------------------------------------
(* What an uninterrupted run of the job accumulates *)

SheetResults(sheet_idx) ==
    IF Workbook[sheet_idx + 1].columns
    THEN ScrapeMultipleWebsites(JobWeb, WebsitesData(Workbook[sheet_idx + 1]))
    ELSE <<>>

FullResults(selected_sheets) ==
    Flatten([i \in 1..Len(selected_sheets) |-> SheetResults(selected_sheets[i])])

ValidSelection(selected_sheets) ==
    \A i \in 1..Len(selected_sheets) : selected_sheets[i] + 1 <= Len(Workbook)

\* the batches (sheet position, batch_start) a complete run scrapes
RequiredBatches(selected_sheets) ==
    {<<k - 1, b>> : k \in 1..Len(selected_sheets), b \in 0..(BatchSize + ExtraRows)} \cap
    {sb \in (0..Len(selected_sheets)) \X (0..(BatchSize + ExtraRows)) :
        /\ sb[1] + 1 <= Len(selected_sheets)
        /\ Workbook[selected_sheets[sb[1] + 1] + 1].columns
        /\ sb[2] % BatchSize = 0
        /\ sb[2] < Workbook[selected_sheets[sb[1] + 1] + 1].nrows}

WorkerWrites == w.pc = "update_write" /\ w' # w

-----------------------------------------------------------------------------
(* Claims *)

\* C1: a stop observed at a checkpoint, with control staying stop (the dashboard
\* has no call in progress then and makes none afterwards), ends the job in
\* status stopped with the records accumulated before the checkpoint
\* persisted under partial_<filename>, which output_file names.
C1_StopPersistsPartial ==
    (w.pc = "done" /\ h.stop_seen /\ h.stop_kept /\ ~h.raised) =>
        /\ store.status = "stopped"
        /\ h.stop_results # <<>> =>
              /\ outputs[PartialName] = [written |-> TRUE, rows |-> h.stop_results]
              /\ store.output_file = PartialName

\* C2: a run in which the worker observed pause at a checkpoint and later
\* observed run again (control never set to stop, no exception) ends
\* completed with the persisted results of an uninterrupted run on the same
\* input.
C2_PauseResumeSameResult ==
    (/\ w.pc = "done" /\ d.pc = "idle"
     /\ h.pause_seen /\ h.resumed /\ ~h.stop_issued /\ ~h.deleted /\ ~h.raised
     /\ store.exists /\ store.control = "run"
     /\ ValidSelection(store.selected_sheets)
     /\ FullResults(store.selected_sheets) # <<>>) =>
        /\ store.status = "completed"
        /\ outputs[ScrapedName].rows = FullResults(store.selected_sheets)

\* C3: once the status of the record is completed, failed or stopped, no step
\* changes it while the record exists.
C3_TerminalNeverChanges ==
    [][(store.exists /\ store.status \in Terminal /\ store'.exists)
          => store'.status = store.status]_vars

\* C4: the control field always holds the value of the dashboard's last
\* completed set_job_control (run at creation), and a write of
\* set_job_control leaves status and progress as they were.
C4_SoleMutators ==
    [][/\ store'.exists => store'.control = h'.last_set
       /\ (d.pc = "write" /\ d'.pc = "idle" /\ store.exists /\ store'.exists)
             => (store'.status = store.status /\ store'.progress = store.progress)
      ]_vars

WorkerEdges ==
    {<<"pending", "processing">>, <<"processing", "paused">>, <<"paused", "processing">>,
     <<"processing", "stopped">>, <<"paused", "stopped">>, <<"processing", "completed">>,
     <<"processing", "failed">>, <<"paused", "failed">>}

\* C5: every change of the record's status made by a write of the worker is
\* one of the edges of the job state machine.
C5_WorkerEdgesOnly ==
    [][(WorkerWrites /\ store.exists /\ store'.exists /\ store'.status # store.status)
          => <<store.status, store'.status>> \in WorkerEdges]_vars

\* C6: the worker writes status completed only when every batch of every
\* selected sheet that has the required columns was scraped and the persisted
\* output holds all their records.
C6_CompletedMeansAllScraped ==
    (w.pc = "update_write" /\ "status" \in DOMAIN w.upd /\ w.upd.status = "completed") =>
        /\ RequiredBatches(w.job.selected_sheets) \subseteq h.scraped
        /\ outputs[ScrapedName].rows = FullResults(w.job.selected_sheets)

\* C7 as stated: a run through all selected sheets with control = run and no
\* exception ends with status completed.
C7_RunEndsCompleted ==
    (w.pc = "done" /\ ~h.raised) => store.status = "completed"

\* C7 amended: such a run ends completed with scraped_<filename> persisted
\* when it accumulated at least one record, and failed with error
\* 'No results found' when it accumulated none.
C7_RunEndsCompletedOrNoResults ==
    (w.pc = "done" /\ ~h.raised) =>
        IF FullResults(store.selected_sheets) # <<>>
        THEN /\ store.status = "completed"
             /\ store.output_file = ScrapedName
             /\ outputs[ScrapedName].rows = FullResults(store.selected_sheets)
        ELSE /\ store.status = "failed"
             /\ store.error = "No results found"
             /\ store.output_file = "None"

C7_Witness ==
    /\ w.pc = "done" /\ ~h.raised
    /\ Len(store.selected_sheets) = 2
    /\ store.selected_sheets[2] = 3
    /\ store.status = "completed"
    /\ Len(outputs[ScrapedName].rows) > BatchSize

-----------------------------------------------------------------------------
(* scrape_multiple_websites as tasks: scraper_async.py *)

MaxTargets == 2     \* longest websites_data list of the small scenarios
BigExtra == 1       \* pages of the large site beyond MAX_URLS_PER_DOMAIN
DeepExtra == 1      \* pages of the deep site beyond depth ScrapeDepth

SmallWeb ==
    [pages |->
        (<<"https://", "acme.org">> :>
            [ok |-> TRUE,
             text |-> << <<"info", "@acme.org">>, <<"info", "@acme.org">>,
                         <<"tracking", "@", "sentry", ".acme.org">> >>,
             links |-> {<<PathTok(1)>>, <<PathTok(2)>>, <<"https://", "other.com", PathTok(1)>>}])
        @@ (<<"https://", "acme.org", PathTok(1)>> :>
            [ok |-> TRUE,
             text |-> << <<"info", "@acme.org">>, <<"Norma", "@acme.org">>,
                         <<"Norma", "@acme.org">> >>,
             links |-> {<<"https://", "acme.org">>, <<PathTok(2)>>}])
        @@ (<<"https://", "acme.org", PathTok(2)>> :>
            [ok |-> FALSE, text |-> <<>>, links |-> {}])
        @@ (<<"https://", "other.com", PathTok(1)>> :>
            [ok |-> TRUE, text |-> << <<"sales", "@other.com">> >>, links |-> {}])
        @@ (<<"https://", "void.net">> :>
            [ok |-> TRUE, text |-> <<>>, links |-> {}])
        @@ (<<"https://", "acme.", "example">> :>
            [ok |-> TRUE,
             text |-> << <<"contact", "@acme.", "example">>, <<"info", "@acme.", "example">>,
                         <<"tracking", "@", "sentry", ".acme.", "example">> >>,
             links |-> {}])
        @@ (<<"https://", "facebook.com">> :>
            [ok |-> TRUE, text |-> << <<"press", "@fb.com">> >>, links |-> {}])
        @@ (<<"https://", "www.", "facebook.com">> :>
            [ok |-> TRUE, text |-> << <<"press", "@fb.com">> >>, links |-> {}]),
     broken |-> (<<"https://", "down.net">> :> ShortMessage)
                @@ (<<"https://", "slow.net">> :> LongMessage),
     robots |-> [status |-> (<<"acme.org">> :> "rules") @@ (<<"void.net">> :> "forbidden")
                            @@ (<<"down.net">> :> "raises"),
                 disallow |-> {<<"https://", "acme.org", PathTok(1)>>}]]

BigRoot == <<"https://", "big.org">>

\* a site of MAX_URLS_PER_DOMAIN + BigExtra pages: the root links to the
\* BigLevel1 pages of level 1; page k of level 1 links back to the root, to
\* itself, to the first page of level 2 and to the pages j of level 2 with
\* j = k modulo BigLevel1
BigLevel1 == MAX_URLS_PER_DOMAIN \div 2
BigLevel2 == MAX_URLS_PER_DOMAIN - 1 - BigLevel1 + BigExtra

BigWeb ==
    [pages |->
        [u \in {BigRoot} \cup {BigRoot \o <<PathTok(k)>> : k \in 1..(BigLevel1 + BigLevel2)} |->
            IF u = BigRoot
            THEN [ok |-> TRUE, text |-> <<>>,
                  links |-> {<<PathTok(k)>> : k \in 1..BigLevel1}]
            ELSE [ok |-> TRUE,
                  text |-> IF u[3] = PathTok(1) THEN <<(<<"info", "@big.org">>)>> ELSE <<>>,
                  links |-> {BigRoot, u, <<PathTok(BigLevel1 + 1)>>} \cup
                            {<<PathTok(BigLevel1 + j)>> :
                                j \in {j \in 1..BigLevel2 :
                                         u[3] = PathTok(((j - 1) % BigLevel1) + 1)}}]],
     broken |-> <<>>,
     robots |-> [status |-> <<>>, disallow |-> {}]]

DeepRoot == <<"https://", "deep.org">>

\* a chain: the root links to page 1 and to an image, page k to page k + 1
\* and back to the root, down to page ScrapeDepth + DeepExtra; every page
\* carries an address
DeepWeb ==
    [pages |->
        [u \in {DeepRoot} \cup {DeepRoot \o <<PathTok(k)>> : k \in 1..(ScrapeDepth + DeepExtra)} |->
            [ok |-> TRUE,
             text |-> <<(<<"page", IF u = DeepRoot THEN "@deep.org" ELSE u[3] \o "@deep.org">>)>>,
             links |-> IF u = DeepRoot THEN {<<PathTok(1)>>, <<"/logo.png">>}
                       ELSE {DeepRoot} \cup
                            {<<PathTok(k + 1)>> :
                                k \in {k \in 1..(ScrapeDepth + DeepExtra - 1) : u[3] = PathTok(k)}}]],
     broken |-> <<>>,
     robots |-> [status |-> (<<"deep.org">> :> "rules"), disallow |-> {}]]

WebOf(tag) ==
    CASE tag = "big" -> BigWeb
      [] tag = "deep" -> DeepWeb
      [] OTHER -> SmallWeb

\* the web of the call in progress
RunWeb == WebWith(WebOf(sc.web), sc.down)

SmallWebsites ==
    {NaN, <<"https://", "www.", "facebook.com">>, <<"facebook.com">>, <<"acme.org">>,
     <<"https://", "void.net">>, <<"https://", "down.net">>}

Target(i, website) ==
    [company |-> <<"T", ToString(i)>>, website |-> website, phone |-> <<>>, city |-> "S"]

TargetLists(websites, n) ==
    {[i \in 1..Len(ws) |-> Target(i, ws[i])] : ws \in SeqsUpTo(websites, n)}

NewTask ==
    [pc |-> "new", ret |-> [kind |-> "none", rows |-> <<>>], base_url |-> <<>>,
     emails |-> {}, visited_urls |-> {}, scraped_domains |-> {},
     current_depth_urls |-> {}, depth |-> 0, pages |-> {}]

\* self.scraped_domains[domain], 0 when the key is absent
DomainCount(scraped_domains, domain) ==
    IF \E p \in scraped_domains : p[1] = domain
    THEN (CHOOSE p \in scraped_domains : p[1] = domain)[2]
    ELSE 0

SetDomainCount(scraped_domains, domain, n) ==
    {p \in scraped_domains : p[1] # domain} \cup {<<domain, n>>}

\* the domain limit compared with > in place of >=
DomainLimitReached_OffByOne(count) == count > MAX_URLS_PER_DOMAIN

\* a session with no limit of requests per domain
DomainLimitReached_Never(count) == FALSE

\* if self.scraped_domains[domain] >= self.MAX_URLS_PER_DOMAIN: return set()
DomainLimitReached(count) == count >= MAX_URLS_PER_DOMAIN

BagCount(bag, x) ==
    IF \E p \in bag : p[1] = x THEN (CHOOSE p \in bag : p[1] = x)[2] ELSE 0

BagAdd(bag, x) == {p \in bag : p[1] # x} \cup {<<x, BagCount(bag, x) + 1>>}

\* the page tasks of a depth: one per URL of the frontier not yet visited
PageTasks(current_depth_urls, visited_urls) ==
    {[url |-> u, st |-> "ready", links |-> {}] : u \in current_depth_urls \ visited_urls}

\* scrape_one up to its first suspension: the semaphore, the early returns,
\* and scrape_website up to the gather of depth 0
ScrapeOneStart(i) ==
    /\ sc.phase = "gather"
    /\ sc.t[i].pc = "new"
    /\ sc.sem > 0
    /\ LET data == sc.websites_data[i]
           url == NormalizeUrl(data.website)
       IN  IF ScrapeOneEarly(data).kind # "crawl"
           THEN sc' = [sc EXCEPT !.t[i].pc = "done", !.order = Append(@, i),
                                 !.t[i].ret = ScrapeOneEarly(data)]
           ELSE IF IsBlockedDomain(data.website)
           THEN sc' = [sc EXCEPT !.t[i].pc = "done", !.order = Append(@, i),
                                 !.t[i].ret = ScrapeOneReturn(data, {})]
           ELSE IF data.website \in DOMAIN RunWeb.broken
           THEN sc' = [sc EXCEPT !.t[i].pc = "done", !.order = Append(@, i),
                                 !.t[i].ret = ScrapeOneError(data, RunWeb.broken[data.website])]
           ELSE sc' = [sc EXCEPT !.sem = sc.sem - 1,
                                 !.t[i] = [NewTask EXCEPT
                                    !.pc = "crawl", !.base_url = url,
                                    !.current_depth_urls = {url},
                                    !.pages = PageTasks({url}, {})]]
    /\ UNCHANGED <<store, outputs, w, d, env, jobs, fp, h, gets>>

\* scrape_single_page that does not record the URL as visited
PageStart_ForgetsVisited(i, page) ==
    /\ sc.phase = "gather"
    /\ sc.t[i].pc = "crawl"
    /\ page \in sc.t[i].pages
    /\ page.st = "ready"
    /\ LET task == sc.t[i]
           domain == GetDomain(page.url)
           count == DomainCount(task.scraped_domains, domain)
           others == task.pages \ {page}
       IN  IF page.url \in task.visited_urls
           THEN /\ sc' = [sc EXCEPT !.t[i].pages = others \cup {[page EXCEPT !.st = "done"]}]
                /\ gets' = gets
           ELSE IF DomainLimitReached(count)
           THEN /\ sc' = [sc EXCEPT !.t[i].pages = others \cup {[page EXCEPT !.st = "done"]}]
                /\ gets' = gets
           ELSE /\ sc' = [sc EXCEPT
                            !.t[i].scraped_domains =
                                SetDomainCount(task.scraped_domains, domain, count + 1),
                            !.t[i].pages = others \cup {[page EXCEPT !.st = "fetching"]}]
                /\ gets' = [gets EXCEPT ![i] = BagAdd(gets[i], NormalizeUrl(page.url))]
    /\ UNCHANGED <<store, outputs, w, d, env, jobs, fp, h>>

\* scrape_single_page with one visited set for all the sessions of the call
PageStart_SharedVisited(i, page) ==
    /\ sc.phase = "gather"
    /\ sc.t[i].pc = "crawl"
    /\ page \in sc.t[i].pages
    /\ page.st = "ready"
    /\ LET task == sc.t[i]
           domain == GetDomain(page.url)
           count == DomainCount(task.scraped_domains, domain)
           others == task.pages \ {page}
       IN  IF page.url \in UNION {sc.t[j].visited_urls : j \in 1..Len(sc.websites_data)}
           THEN /\ sc' = [sc EXCEPT !.t[i].pages = others \cup {[page EXCEPT !.st = "done"]}]
                /\ gets' = gets
           ELSE IF DomainLimitReached(count)
           THEN /\ sc' = [sc EXCEPT
                            !.t[i].visited_urls = task.visited_urls \cup {page.url},
                            !.t[i].pages = others \cup {[page EXCEPT !.st = "done"]}]
                /\ gets' = gets
           ELSE /\ sc' = [sc EXCEPT
                            !.t[i].visited_urls = task.visited_urls \cup {page.url},
                            !.t[i].scraped_domains =
                                SetDomainCount(task.scraped_domains, domain, count + 1),
                            !.t[i].pages = others \cup {[page EXCEPT !.st = "fetching"]}]
                /\ gets' = [gets EXCEPT ![i] = BagAdd(gets[i], NormalizeUrl(page.url))]
    /\ UNCHANGED <<store, outputs, w, d, env, jobs, fp, h>>

\* scrape_single_page up to the await of fetch_url: visited, the domain limit
PageStart(i, page) ==
    /\ sc.phase = "gather"
    /\ sc.t[i].pc = "crawl"
    /\ page \in sc.t[i].pages
    /\ page.st = "ready"
    /\ LET task == sc.t[i]
           domain == GetDomain(page.url)
           count == DomainCount(task.scraped_domains, domain)
           others == task.pages \ {page}
       IN  IF page.url \in task.visited_urls
           THEN /\ sc' = [sc EXCEPT !.t[i].pages = others \cup {[page EXCEPT !.st = "done"]}]
                /\ gets' = gets
           ELSE IF DomainLimitReached(count)
           THEN /\ sc' = [sc EXCEPT
                            !.t[i].visited_urls = task.visited_urls \cup {page.url},
                            !.t[i].pages = others \cup {[page EXCEPT !.st = "done"]}]
                /\ gets' = gets
           ELSE /\ sc' = [sc EXCEPT
                            !.t[i].visited_urls = task.visited_urls \cup {page.url},
                            !.t[i].scraped_domains =
                                SetDomainCount(task.scraped_domains, domain, count + 1),
                            !.t[i].pages = others \cup {[page EXCEPT !.st = "fetching"]}]
                /\ gets' = [gets EXCEPT ![i] = BagAdd(gets[i], NormalizeUrl(page.url))]
    /\ UNCHANGED <<store, outputs, w, d, env, jobs, fp, h>>

\* fetch_url returns; scrape_single_page extracts emails and links
PageDone(i, page) ==
    /\ sc.phase = "gather"
    /\ sc.t[i].pc = "crawl"
    /\ page \in sc.t[i].pages
    /\ page.st = "fetching"
    /\ LET task == sc.t[i]
           web == RunWeb
           url == NormalizeUrl(page.url)
           links == PageLinks(web, url, task.base_url, task.visited_urls,
                              ScrapeDepth - task.depth)
       IN  sc' = [sc EXCEPT
                    !.t[i].emails = task.emails \cup PageEmails(web, url),
                    !.t[i].pages = (task.pages \ {page}) \cup
                                   {[page EXCEPT !.st = "done", !.links = links]}]
    /\ UNCHANGED <<store, outputs, w, d, env, jobs, fp, h, gets>>

\* the session going on to the next frontier as soon as one page task of the
\* depth is done, the others still running
DepthDone_FirstCompleted(i) ==
    /\ sc.phase = "gather"
    /\ sc.t[i].pc = "crawl"
    /\ \E page \in sc.t[i].pages : page.st = "done"
    /\ LET task == sc.t[i]
           next_depth_urls == UNION {page.links : page \in task.pages}
           tasks == PageTasks(next_depth_urls, task.visited_urls)
       IN  IF task.depth + 1 > ScrapeDepth \/ next_depth_urls = {} \/ tasks = {}
           THEN sc' = [sc EXCEPT !.sem = sc.sem + 1,
                                 !.t[i].pc = "done", !.order = Append(@, i),
                                 !.t[i].pages = {},
                                 !.t[i].current_depth_urls = next_depth_urls,
                                 !.t[i].ret = ScrapeOneReturn(sc.websites_data[i], task.emails)]
           ELSE sc' = [sc EXCEPT !.t[i].depth = task.depth + 1,
                                 !.t[i].current_depth_urls = next_depth_urls,
                                 !.t[i].pages = tasks \cup {page \in task.pages : page.st # "done"}]
    /\ UNCHANGED <<store, outputs, w, d, env, jobs, fp, h, gets>>

\* the gather of a depth returns: the next frontier, or the session returns
\* and scrape_one builds its records and releases the semaphore
DepthDone(i) ==
    /\ sc.phase = "gather"
    /\ sc.t[i].pc = "crawl"
    /\ \A page \in sc.t[i].pages : page.st = "done"
    /\ LET task == sc.t[i]
           next_depth_urls == UNION {page.links : page \in task.pages}
           tasks == PageTasks(next_depth_urls, task.visited_urls)
       IN  IF task.depth + 1 > ScrapeDepth \/ next_depth_urls = {} \/ tasks = {}
           THEN sc' = [sc EXCEPT !.sem = sc.sem + 1,
                                 !.t[i].pc = "done", !.order = Append(@, i),
                                 !.t[i].pages = {},
                                 !.t[i].current_depth_urls = next_depth_urls,
                                 !.t[i].ret = ScrapeOneReturn(sc.websites_data[i], task.emails)]
           ELSE sc' = [sc EXCEPT !.t[i].depth = task.depth + 1,
                                 !.t[i].current_depth_urls = next_depth_urls,
                                 !.t[i].pages = tasks]
    /\ UNCHANGED <<store, outputs, w, d, env, jobs, fp, h, gets>>

\* the results of the tasks, flattened from the last task to the first
FlattenResults_Reversed(rets) ==
    Flatten([i \in 1..Len(rets) |->
                LET k == Len(rets) + 1 - i
                IN  IF rets[k].kind \in {"list", "dict"} THEN rets[k].rows ELSE <<>>])

\* the results of the tasks, flattened in input order
FlattenResults(rets) ==
    Flatten([i \in 1..Len(rets) |->
                IF rets[i].kind \in {"list", "dict"} THEN rets[i].rows ELSE <<>>])

\* completed_results = await asyncio.gather(*tasks); flatten; return results
GatherDone ==
    /\ sc.phase = "gather"
    /\ \A i \in 1..Len(sc.websites_data) : sc.t[i].pc = "done"
    /\ sc' = [sc EXCEPT !.phase = "returned",
                        !.results = FlattenResults([i \in 1..Len(sc.websites_data) |-> sc.t[i].ret])]
    /\ UNCHANGED <<store, outputs, w, d, env, jobs, fp, h, gets>>

\* the pages of acme.org
AcmePages ==
    {<<"https://", "acme.org">>, <<"https://", "acme.org", PathTok(1)>>,
     <<"https://", "acme.org", PathTok(2)>>}

\* every pattern of failing fetches on the pages of acme.org
AcmeFailures == UNION {[S -> FetchFailures] : S \in SUBSET AcmePages \ {{}}}

Scenarios ==
    {[web |-> "small", websites_data |-> ws, max_concurrent |-> m, down |-> <<>>] :
        ws \in TargetLists(SmallWebsites, MaxTargets), m \in {1, 1000}}
    \cup {[web |-> "big", websites_data |-> <<Target(1, website)>>, max_concurrent |-> 1000,
          down |-> <<>>] :
            website \in {<<"big.org">>}}
    \cup {[web |-> "small", websites_data |-> <<Target(1, website)>>, max_concurrent |-> 1000,
          down |-> <<>>] :
            website \in {<<"acme.", "example">>, EmptyString, NonString,
                         <<"https://", "slow.net">>}}
    \cup {[web |-> "deep", websites_data |-> <<Target(1, website)>>, max_concurrent |-> 1000,
          down |-> <<>>] :
            website \in {<<"deep.org">>}}
    \cup {[web |-> "small", websites_data |-> <<Target(1, <<"acme.org">>)>>,
           max_concurrent |-> 1000, down |-> down] : down \in AcmeFailures}

InitScrape ==
    /\ store = NoJob
    /\ outputs = [name \in {PartialName, ScrapedName} |-> NoFile]
    /\ w = InitW
    /\ d = InitD
    /\ env = [readable |-> TRUE]
    /\ h = InitH
    /\ fp = NoPhoneCall
    /\ jobs = NoJobs
    /\ \E scenario \in Scenarios :
          /\ sc = [phase |-> "gather", web |-> scenario.web, down |-> scenario.down,
                   websites_data |-> scenario.websites_data,
                   sem |-> scenario.max_concurrent,
                   t |-> [i \in 1..Len(scenario.websites_data) |-> NewTask],
                   order |-> <<>>,      \* the sessions in the order they returned
                   results |-> <<>>]
          /\ gets = [i \in 1..Len(scenario.websites_data) |-> {}]

NextScrape ==
    \/ \E i \in 1..Len(sc.websites_data) : ScrapeOneStart(i)
    \/ \E i \in 1..Len(sc.websites_data) : \E page \in sc.t[i].pages : PageStart(i, page)
    \/ \E i \in 1..Len(sc.websites_data) : \E page \in sc.t[i].pages : PageDone(i, page)
    \/ \E i \in 1..Len(sc.websites_data) : DepthDone(i)
    \/ GatherDone

SpecScrape == InitScrape /\ [][NextScrape]_vars

(* One session, with fairness: the event loop runs a task that is ready (a
   scrape_one task at its start, a session whose gather has all its results,
   the gather of the call), and every fetch returns: the page tasks of a
   gather all finish, so time and again no page task of session i is left
   unfinished. *)
PageTasksFinish(i) ==
    []<>(i \in DOMAIN sc.t => \A page \in sc.t[i].pages : page.st = "done")

\* a call of scrape_multiple_websites with one target
InitCrawl == InitScrape /\ Len(sc.websites_data) = 1

SpecCrawl ==
    /\ InitCrawl /\ [][NextScrape]_vars
    /\ WF_vars(\E i \in 1..Len(sc.websites_data) : ScrapeOneStart(i))
    /\ WF_vars(\E i \in 1..Len(sc.websites_data) : DepthDone(i))
    /\ WF_vars(GatherDone)
    /\ \A i \in 1..MaxTargets : PageTasksFinish(i)

-----------------------------------------------------------------------------
(* Claims about scrape_multiple_websites and the crawl session *)

Targets == 1..Len(sc.websites_data)

IsSentinel(email) ==
    \/ email \in {<<"No", " website provided">>, <<"Blocked", " domain">>,
                  <<"No", " email found">>}
    \/ email[1] = "Error"

\* the rows of the returned list that carry the company of target i
RowsOf(i) ==
    SelectSeq(sc.results, LAMBDA r : r.Company = sc.websites_data[i].company)

\* C8: in the returned rows every target has either one record per discovered
\* email (at least one) or exactly one sentinel record.
C8_RowsPerTarget ==
    sc.phase = "returned" =>
        \A i \in Targets :
            /\ Len(RowsOf(i)) >= 1
            /\ \/ \A k \in 1..Len(RowsOf(i)) : ~IsSentinel(RowsOf(i)[k].Email)
               \/ Len(RowsOf(i)) = 1 /\ IsSentinel(RowsOf(i)[1].Email)

C8_Witness ==
    /\ sc.phase = "returned"
    /\ Len(sc.websites_data) = 2
    /\ Len(RowsOf(1)) = 2 /\ ~IsSentinel(RowsOf(1)[1].Email)
    /\ Len(RowsOf(2)) = 1 /\ RowsOf(2)[1].Email[1] = "Error"

\* the website names a host of the block list, with its scheme or once the
\* session has prefixed one
DenotesBlockedHost(website) ==
    ~IsMissing(website) /\ IsBlockedDomain(NormalizeUrl(website))

\* C9: for a target whose website denotes a blocked host, with or without a
\* scheme, no GET is issued and its only record is 'Blocked domain'.
C9_BlockedNeverFetched ==
    sc.phase # "none" =>
        \A i \in Targets :
            DenotesBlockedHost(sc.websites_data[i].website) =>
                /\ gets[i] = {}
                /\ sc.t[i].pc = "done" =>
                      sc.t[i].ret.rows =
                          <<Sentinel(sc.websites_data[i], sc.websites_data[i].website,
                                     <<"Blocked", " domain">>)>>

\* the number of elements of a bag, with multiplicity
BagTotal(bag) == Cardinality(UNION {{<<p[1], k>> : k \in 1..p[2]} : p \in bag})

\* the GETs of target i, each tagged with the domain of its URL
TaggedGets(i) == {<<GetDomain(p[1]), p[1], p[2]>> : p \in gets[i]}

\* the number of tagged GETs to URLs of a domain
DomainTotal(tagged, domain) ==
    Cardinality(UNION {{<<q[2], k>> : k \in 1..q[3]} : q \in {q \in tagged : q[1] = domain}})

\* the GETs of target i to URLs of a domain
DomainGets(i, domain) == DomainTotal(TaggedGets(i), domain)

\* C10: in every crawl session the GETs issued for one domain never exceed
\* MAX_URLS_PER_DOMAIN, whatever the order in which the page tasks of a depth
\* start and finish, and the session's counter of the domain is that number.
C10_DomainBudget ==
    sc.phase # "none" =>
        \A i \in Targets :
            LET tagged == TaggedGets(i)
            IN  \A domain \in {q[1] : q \in tagged} :
                    LET n == DomainTotal(tagged, domain)
                    IN  /\ n <= MAX_URLS_PER_DOMAIN
                        /\ n = DomainCount(sc.t[i].scraped_domains, domain)

\* the limit is reached while a URL of the frontier was left without a GET
C10_Witness ==
    /\ sc.phase # "none"
    /\ \E i \in Targets :
          /\ DomainGets(i, <<"big.org">>) = MAX_URLS_PER_DOMAIN
          /\ \E page \in sc.t[i].pages :
                page.st = "done" /\ BagCount(gets[i], page.url) = 0

-----------------------------------------------------------------------------
(* Claims about the depth of the crawl *)

\* the URLs within k links of root, following the same-domain links of the
\* pages that a GET returns
RECURSIVE ReachWithin(_, _, _)
ReachWithin(web, root, k) ==
    IF k = 0 THEN {root}
    ELSE LET R == ReachWithin(web, root, k - 1)
         IN  R \cup UNION {{full_url \in {UrlJoin(root, href) : href \in PageOf(web, u).links} :
                               GetDomain(full_url) = GetDomain(root)} :
                           u \in {u \in R : PageOf(web, u).ok}}

\* per site and website of the scenarios, the URLs within ScrapeDepth links
\* of the root the session starts from
WithinDepth ==
    [tag \in {"small", "big", "deep"} |->
        [website \in {sn.websites_data[1].website :
                          sn \in {x \in Scenarios : x.web = tag /\ Len(x.websites_data) >= 1}} |->
            ReachWithin(WebOf(tag), NormalizeUrl(website), ScrapeDepth)]]

\* C11: a session fetches only URLs of frontier depths 0..max_depth: every GET
\* is to a URL within max_depth links of the root, the depth loop never runs
\* beyond max_depth, and the pages fetched at depth max_depth return no links.
C11_DepthRespected ==
    sc.phase # "none" =>
        \A i \in Targets :
            sc.t[i].pc \in {"crawl", "done"} =>
                /\ {p[1] : p \in gets[i]} \subseteq
                      WithinDepth[sc.web][sc.websites_data[i].website]
                /\ sc.t[i].depth <= ScrapeDepth
                /\ sc.t[i].depth = ScrapeDepth =>
                      \A page \in sc.t[i].pages : page.links = {}

\* the deep site was crawled to the end: its page of depth max_depth was
\* fetched, the page it links to was not
C11_Witness ==
    /\ sc.phase # "none" /\ sc.web = "deep"
    /\ sc.t[1].pc = "done"
    /\ BagCount(gets[1], DeepRoot \o <<PathTok(ScrapeDepth)>>) = 1
    /\ BagCount(gets[1], DeepRoot \o <<PathTok(ScrapeDepth + 1)>>) = 0
    /\ DeepRoot \o <<PathTok(ScrapeDepth + 1)>> \in DOMAIN DeepWeb.pages

-----------------------------------------------------------------------------
(* Claims about the addresses a target yields *)

\* how many times an address occurs in the text of the pages fetched for
\* target i
OccurrencesOf(i, email) ==
    Cardinality(UNION {{<<p[1], k>> :
                          k \in {k \in 1..Len(PageOf(RunWeb, p[1]).text) :
                                   PageOf(RunWeb, p[1]).text[k] = email}} :
                       p \in gets[i]})

\* C12: the records scrape_multiple_websites returns for one target carry
\* pairwise distinct Email values.
C12_DistinctEmails ==
    sc.phase = "returned" =>
        \A i \in Targets :
            \A j, k \in 1..Len(RowsOf(i)) :
                RowsOf(i)[j].Email = RowsOf(i)[k].Email => j = k

\* a target returned with two records, one of an address that occurred
\* several times in the pages fetched for it
C12_Witness ==
    /\ sc.phase = "returned"
    /\ Len(RowsOf(1)) = 2
    /\ \E j \in 1..2 : OccurrencesOf(1, RowsOf(1)[j].Email) >= 3

C16_TotalEmailsCountsAddresses ==
    (w.pc = "update_write" /\ "total_emails" \in DOMAIN w.upd) =>
        w.upd.total_emails =
            Cardinality({k \in 1..Len(w.all_results) : ~IsSentinel(w.all_results[k].Email)})

\* C17: after the worker read control = pause at a checkpoint while the status
\* was processing, the next status it writes is paused, and it starts no
\* batch of crawl sessions before it has read control = run.
C17_PauseWritesPaused ==
    [][/\ (h.owes_paused /\ w.pc = "update_write" /\ w'.pc # "update_write"
            /\ "status" \in DOMAIN w.upd) => w.upd.status = "paused"
       /\ (w.pc = "scrape" /\ w'.pc # "scrape") => ~h.owes_run
      ]_vars

\* C18: while the crawl sessions of a batch are running the worker writes no
\* status and persists nothing; when they have returned all their records are
\* appended; the accumulated list grows by whole batches only, and what is
\* persisted is the accumulated list.
C18_BatchesRunToCompletion ==
    [][/\ w.pc = "scraping" =>
             /\ outputs' = outputs
             /\ \/ w'.pc = "scraping"
                \/ /\ w'.pc = "update_read"
                   /\ "status" \notin DOMAIN w'.upd
                   /\ w'.all_results =
                         w.all_results \o
                         ScrapeMultipleWebsites(
                             JobWeb, SubSeq(WebsitesData(CurrentSheet), w.batch_start + 1, BatchEnd))
       /\ w'.all_results # w.all_results => (w'.all_results = <<>> \/ w.pc = "scraping")
       /\ \A name \in DOMAIN outputs :
             outputs'[name] # outputs[name] => outputs'[name].rows = w.all_results
      ]_vars

\* pause or stop was set while a batch was running, and the partial output
\* holds the whole first batch of the large sheet
C18_Witness ==
    /\ h.in_flight
    /\ outputs[PartialName].written
    /\ Len(outputs[PartialName].rows) >= BatchSize

\* p <= q for percentages held as fractions n / d
FracLeq(p, q) == p.n * q.d <= q.n * p.d

\* C19: every progress value the worker writes for the job is within 0..100
\* and not below the one it wrote before, and it is 100 when the status
\* written is completed.
C19_ProgressMonotone ==
    [][(w.pc = "update_write" /\ w'.pc # "update_write" /\ w.snap.exists) =>
          /\ "progress" \in DOMAIN w.upd =>
                /\ FracLeq([n |-> 0, d |-> 1], w.upd.progress)
                /\ FracLeq(w.upd.progress, [n |-> 100, d |-> 1])
                /\ FracLeq(h.last_progress, w.upd.progress)
          /\ ("status" \in DOMAIN w.upd /\ w.upd.status = "completed") =>
                /\ "progress" \in DOMAIN w.upd
                /\ w.upd.progress = [n |-> 100, d |-> 1]
      ]_vars

\* C20: once a run has ended by an exception, the record (while it exists) has
\* status failed, the captured message as error and completed_at set, and the
\* worker does not run the job again.
C20_FailedIsFinal ==
    [][(w.pc = "done" /\ h.raised) =>
          /\ store.exists =>
                /\ store.status = "failed"
                /\ store.error # "None"
                /\ store.completed_at # "None"
          /\ w'.pc = "done"
      ]_vars

\* the targets whose crawl session raises
Failing(i) ==
    /\ ScrapeOneEarly(sc.websites_data[i]).kind = "crawl"
    /\ sc.websites_data[i].website \in DOMAIN RunWeb.broken

\* the list without its element i
Without(seq, i) == SubSeq(seq, 1, i - 1) \o SubSeq(seq, i + 1, Len(seq))

\* the returned rows that do not carry the company of target i
RowsNotOf(i) ==
    SelectSeq(sc.results, LAMBDA r : r.Company # sc.websites_data[i].company)

\* C21: a target whose crawl session raises yields exactly one record, whose
\* Email is 'Error: ' followed by the first characters of the message, at most
\* ErrorMessageChars of them, and the rows of the other targets are those of
\* the batch without the failing target.
C21_ErrorRecordIsolated ==
    sc.phase = "returned" =>
        \A i \in Targets :
            Failing(i) =>
                LET message == RunWeb.broken[sc.websites_data[i].website]
                    email == RowsOf(i)[1].Email
                    kept == SubSeq(email, 3, Len(email))
                IN  /\ Len(RowsOf(i)) = 1
                    /\ SubSeq(email, 1, 2) = <<"Error", ": ">>
                    /\ Len(kept) <= ErrorMessageChars
                    /\ kept = SubSeq(message, 1, Len(kept))
                    /\ Len(message) <= ErrorMessageChars => kept = message
                    /\ RowsNotOf(i) =
                          ScrapeMultipleWebsites(RunWeb, Without(sc.websites_data, i))

C21_Witness ==
    /\ sc.phase = "returned"
    /\ Len(sc.websites_data) = 2
    /\ Failing(1)
    /\ Len(RowsOf(1)) = 1
    /\ Len(RowsOf(2)) = 2 /\ ~IsSentinel(RowsOf(2)[1].Email)

\* the URLs target i has requested
Requested(i) == {p[1] : p \in gets[i]}

\* the request of this URL gives a body: it is not among the failing fetches of
\* the run and the site serves the page
FetchSucceeds(url) ==
    url \notin DOMAIN sc.down /\ PageOf(WebOf(sc.web), url).ok

\* the requested URLs of target i whose fetch gave a body
Fetched(i) == {url \in Requested(i) : FetchSucceeds(url)}

\* the valid addresses in the text of the successfully fetched pages
FetchedEmails(i) ==
    UNION {ExtractEmailsFromText(PageOf(WebOf(sc.web), url).text) : url \in Fetched(i)}

\* C22: whatever page fetches fail, the session of a target raises nothing and
\* collects exactly the valid addresses of the pages fetched successfully; a
\* page whose fetch failed gives no links, so every URL requested beyond the
\* start URL is linked from a successfully fetched page; the target's records
\* are those addresses or 'No email found', never 'Error:'.
C22_FailedFetchesNonFatal ==
    sc.phase # "none" =>
        \A i \in Targets :
            (sc.t[i].pc \in {"crawl", "done"} /\ ~Failing(i)
                /\ ScrapeOneEarly(sc.websites_data[i]).kind = "crawl") =>
                /\ \A page \in sc.t[i].pages :
                      (page.st = "done" /\ ~FetchSucceeds(NormalizeUrl(page.url))) =>
                          page.links = {}
                /\ \A url \in Requested(i) \ {NormalizeUrl(sc.websites_data[i].website)} :
                      \E from \in Fetched(i) :
                          url \in {UrlJoin(NormalizeUrl(sc.websites_data[i].website), href) :
                                      href \in PageOf(WebOf(sc.web), from).links}
                /\ sc.t[i].pc = "done" =>
                      /\ sc.t[i].ret.kind \in {"list", "dict"}
                      /\ \A k \in 1..Len(sc.t[i].ret.rows) :
                            sc.t[i].ret.rows[k].Email[1] # "Error"
                      /\ IF FetchedEmails(i) = {}
                         THEN sc.t[i].ret.rows =
                                <<Sentinel(sc.websites_data[i], sc.websites_data[i].website,
                                           <<"No", " email found">>)>>
                         ELSE /\ {sc.t[i].ret.rows[k].Email : k \in 1..Len(sc.t[i].ret.rows)}
                                    = FetchedEmails(i)
                              /\ Len(sc.t[i].ret.rows) = Cardinality(FetchedEmails(i))

\* the fetch of /p1 of acme.org failed while the start page was fetched: the
\* address found only on /p1 is missing from the records
C22_Witness ==
    /\ sc.phase = "returned"
    /\ <<"https://", "acme.org", PathTok(1)>> \in DOMAIN sc.down
    /\ <<"https://", "acme.org", PathTok(1)>> \in Requested(1)
    /\ Len(sc.results) = 1
    /\ sc.results[1].Email = <<"info", "@acme.org">>

\* C24: the records of a target are those of a call with that target alone,
\* whatever the other targets of the batch are (the same website included)
\* and however the sessions interleave.
C24_SessionsIndependent ==
    sc.phase = "returned" =>
        \A i \in Targets :
            RowsOf(i) = ScrapeMultipleWebsites(RunWeb, <<sc.websites_data[i]>>)

\* two targets naming the same website, each with the two addresses of the site
C24_Witness ==
    /\ sc.phase = "returned"
    /\ Len(sc.websites_data) = 2
    /\ sc.websites_data[1].website = sc.websites_data[2].website
    /\ Len(RowsOf(1)) = 2 /\ ~IsSentinel(RowsOf(1)[1].Email)
    /\ Len(RowsOf(2)) = 2 /\ ~IsSentinel(RowsOf(2)[1].Email)

\* C29: every crawl session ends (its task is done and the call returns),
\* whatever the link graph, cycles and pages linking to themselves included;
\* a session runs at most ScrapeDepth + 1 depth iterations and issues at most
\* MAX_URLS_PER_DOMAIN requests.
C29_ScrapeWebsiteTerminates ==
    /\ <>(sc.phase = "returned" /\ \A i \in Targets : sc.t[i].pc = "done")
    /\ [](\A i \in Targets :
            /\ sc.t[i].depth + 1 <= ScrapeDepth + 1
            /\ BagTotal(gets[i]) <= MAX_URLS_PER_DOMAIN)

\* the session of big.org, whose pages link back to the root and to
\* themselves, returned after MAX_URLS_PER_DOMAIN requests at depth ScrapeDepth
C29_Witness ==
    /\ sc.phase = "returned" /\ sc.web = "big"
    /\ sc.t[1].depth = ScrapeDepth
    /\ BagTotal(gets[1]) = MAX_URLS_PER_DOMAIN

\* the page tasks of session i that have not finished
Unfinished(i) == {page \in sc.t[i].pages : page.st # "done"}

C31_FetchedAtMostOnce ==
    sc.phase # "none" =>
        \A i \in Targets : \A p \in gets[i] : p[2] <= 1

\* the session of big.org returned: every page of level 1 links to the root,
\* to itself and to the first page of level 2, which was requested once; and
\* the session of acme.org returned with the failing page p2, linked from the
\* root and from p1, requested once
C31_Witness ==
    /\ sc.phase = "returned" /\ Len(sc.websites_data) = 1
    /\ \/ /\ sc.web = "big"
          /\ BagCount(gets[1], BigRoot \o <<PathTok(BigLevel1 + 1)>>) = 1
          /\ BagCount(gets[1], BigRoot) = 1
       \/ /\ sc.web = "small"
          /\ BagCount(gets[1], <<"https://", "acme.org", PathTok(2)>>) = 1
          /\ ~FetchSucceeds(<<"https://", "acme.org", PathTok(2)>>)

\* C27: once the worker has read control = stop at a checkpoint of the run
\* (sheet checkpoint, batch checkpoint, pause poll), it starts no further call
\* of scrape_multiple_websites in that run.
C27_NoScrapeAfterStop ==
    [][h.stop_seen => ~(w.pc = "scrape" /\ w'.pc = "scraping")]_vars

Paused == store.exists /\ store.status = "paused"

ControlIs(control) == store.exists /\ store.control = control

\* the worker waits in the pause loop: it wrote status paused and has read
\* neither run nor stop since
Polling == Paused /\ w.pc = "pause_poll"

\* status stopped, the accumulated records under partial_<filename>
StoppedPersisted ==
    /\ store.exists /\ store.status = "stopped"
    /\ w.all_results # <<>> =>
          /\ outputs[PartialName] = [written |-> TRUE, rows |-> w.all_results]
          /\ store.output_file = PartialName

AcmeExample == <<"acme.", "example">>

EmailsOf(i) == {RowsOf(i)[k].Email : k \in 1..Len(RowsOf(i))}

\* C14 as stated: the target acme.example, whose page holds
\* contact@acme.example, info@acme.example and tracking@sentry.acme.example,
\* yields exactly two records, for contact@ and info@.
C14_AcmeExampleTwoRecords ==
    sc.phase = "returned" =>
        \A i \in Targets :
            sc.websites_data[i].website = AcmeExample =>
                /\ Len(RowsOf(i)) = 2
                /\ EmailsOf(i) = {<<"contact", "@acme.", "example">>,
                                  <<"info", "@acme.", "example">>}

\* C14 amended: every address of that page contains 'example' and is
\* rejected, so the target yields the single record 'No email found'; the
\* target acme.org, whose pages hold info@acme.org, Norma@acme.org and
\* tracking@sentry.acme.org, yields exactly the records of info@ and Norma@
\* (the fetches of the pages that hold them succeeding).
C14_NoiseAddressesRejected ==
    (sc.phase = "returned" /\ DOMAIN sc.down = {}) =>
        \A i \in Targets :
            /\ sc.websites_data[i].website = AcmeExample =>
                  RowsOf(i) = <<Sentinel(sc.websites_data[i], AcmeExample,
                                         <<"No", " email found">>)>>
            /\ sc.websites_data[i].website = <<"acme.org">> =>
                  /\ Len(RowsOf(i)) = 2
                  /\ EmailsOf(i) = {<<"info", "@acme.org">>, <<"Norma", "@acme.org">>}

\* the page of acme.example was fetched and the call returned
C14_Witness ==
    /\ sc.phase = "returned"
    /\ Len(sc.websites_data) = 1
    /\ sc.websites_data[1].website = AcmeExample
    /\ BagCount(gets[1], <<"https://">> \o AcmeExample) = 1

-----------------------------------------------------------------------------
(* format_phone_number applied to a phone cell, and again to what it returned *)

MaxPhoneLen == 5    \* longest phone string over PhoneChars

PhoneChars == {"0", "1", "+", "-", "x"}

TenDigits == <<"5", "5", "5", "0", "1", "2", "3", "4", "5", "6">>

\* a ten-digit number written the usual ways
WrittenNumbers ==
    {pre \o SubSeq(TenDigits, 1, 3) \o mid \o SubSeq(TenDigits, 4, 6) \o sep \o
     SubSeq(TenDigits, 7, 10) \o post :
        pre \in {<<>>, <<"+", "1">>, <<"(">>, <<"+", "1", " ", "(">>, <<"1">>},
        mid \in {<<>>, <<")", " ">>, <<"-">>},
        sep \in {<<>>, <<"-">>, <<".">>},
        post \in {<<>>, <<" ", "x">>, <<"9">>}}

PhoneInputs == {NoPhone} \cup SeqsUpTo(PhoneChars, MaxPhoneLen) \cup WrittenNumbers

InitPhone ==
    /\ store = NoJob
    /\ outputs = [name \in {PartialName, ScrapedName} |-> NoFile]
    /\ w = InitW
    /\ d = InitD
    /\ env = [readable |-> TRUE]
    /\ h = InitH
    /\ sc = NoCall
    /\ gets = <<>>
    /\ jobs = NoJobs
    /\ \E phone \in PhoneInputs : fp = [n |-> 0, phone |-> phone, once |-> <<>>, twice |-> <<>>]

\* formatted_phone = format_phone_number(phone)
FormatPhone ==
    /\ fp.n = 0
    /\ fp' = [fp EXCEPT !.n = 1, !.once = FormatPhoneNumber(fp.phone)]
    /\ UNCHANGED <<store, outputs, w, d, env, jobs, h, sc, gets>>

\* format_phone_number applied to a value it returned
FormatPhoneAgain ==
    /\ fp.n = 1
    /\ fp' = [fp EXCEPT !.n = 2, !.twice = FormatPhoneNumber(fp.once)]
    /\ UNCHANGED <<store, outputs, w, d, env, jobs, h, sc, gets>>

NextPhone == FormatPhone \/ FormatPhoneAgain

SpecPhone == InitPhone /\ [][NextPhone]_vars

\* C13: format_phone_number is idempotent: applied to a value it returned it
\* returns that value.
C13_FormatPhoneIdempotent ==
    fp.n = 2 => fp.twice = fp.once

-----------------------------------------------------------------------------
(* The sequential mode: EmailScraper of get_emails_fb11.py, one instance   *)
(* reused for every row by app.process_single_file and by main             *)

blocked_domains_seq ==
    {"estatesales.net", "estatesales.org", "godaddy.com", "hibid.com",
     "bluemoonestatesales.com", "galleryauctions.com"}

unwanted_patterns_seq == {"wix", "example", "domain", "sentry", "webp", "jpg", "png"}

\* path tokens that end in one of skip_extensions
\* EmailScraper.is_blocked_domain: the domain is an element of the list
IsBlockedDomainSeq(url) ==
    IF IsMissing(url) THEN FALSE
    ELSE Len(GetDomain(url)) = 1 /\ GetDomain(url)[1] \in blocked_domains_seq

\* EmailScraper.should_skip_url
ShouldSkipUrl(url) == Len(url) >= 1 /\ url[Len(url)] \in SkippedPaths

\* EmailScraper.can_scrape_domain
CanScrapeDomain(scraped_domains, url) ==
    /\ GetDomain(url) # <<>>
    /\ DomainCount(scraped_domains, GetDomain(url)) < MAX_URLS_PER_DOMAIN

\* EmailScraper.is_allowed_by_robots: can_fetch after read(); a read that
\* raises is taken as allowed
IsAllowedByRobots(web, url) ==
    CASE RobotsStatus(web, url) = "rules" -> url \notin web.robots.disallow
      [] RobotsStatus(web, url) = "forbidden" -> FALSE
      [] OTHER -> TRUE

\* EmailScraper.extract_emails
ExtractEmails(text) ==
    {email \in {text[k] : k \in 1..Len(text)} :
        ~ \E pattern \in unwanted_patterns_seq : Contains(email, pattern)}

\* the links of the page on the domain of the page
InternalLinks(web, url) ==
    {link \in {UrlJoin(url, href) : href \in PageOf(web, url).links} :
        ~ShouldSkipUrl(link) /\ GetDomain(link) = GetDomain(url)}

\* EmailScraper.get_internal_links: the loop over the anchors stops at the
\* first one whose domain cannot be scraped, so the links collected are those
\* before it in document order
InternalLinkSets(web, scraped_domains, url) ==
    IF \A link \in {UrlJoin(url, href) : href \in PageOf(web, url).links} :
          ShouldSkipUrl(link) \/ CanScrapeDomain(scraped_domains, link)
    THEN {InternalLinks(web, url)}
    ELSE SUBSET InternalLinks(web, url)

\* a record of all_results; main adds the row number and names a missing
\* website differently
SeqRecord(mode, row, data, website, email) ==
    IF mode = "main"
    THEN [Row_Number |-> row + 1, Company |-> data.company, Website |-> website,
          Phone_Number |-> FormatPhoneNumber(data.phone), Email |-> email, City |-> data.city]
    ELSE Sentinel(data, website, email)

\* the website field of the record of a row without a website
MissingWebsite(mode, website) ==
    IF mode = "main" /\ website # NaN THEN website
    ELSE IF mode = "main" THEN <<"No website provided">>
    ELSE <<"No website">>

Frame(url, depth) == [url |-> url, depth |-> depth, st |-> "call", links |-> {}]

Top == sc.stack[Len(sc.stack)]

Pop == SubSeq(sc.stack, 1, Len(sc.stack) - 1)

\* the loop body up to the call of scrape_page: the records of a row without
\* a usable website, else the resets and scrape_page(website, max_depth=2)
SeqRow ==
    /\ sc.phase = "seq"
    /\ sc.pc = "row"
    /\ sc.row <= Len(sc.websites_data)
    /\ LET data == sc.websites_data[sc.row]
       IN  IF IsMissing(data.website)
           THEN sc' = [sc EXCEPT
                         !.results = Append(@, SeqRecord(sc.mode, sc.row, data,
                                                         MissingWebsite(sc.mode, data.website),
                                                         <<"No", " website provided">>)),
                         !.row = @ + 1]
           ELSE IF IsBlockedDomainSeq(data.website)
           THEN sc' = [sc EXCEPT
                         !.results = Append(@, SeqRecord(sc.mode, sc.row, data, data.website,
                                                         <<"Blocked", " domain">>)),
                         !.row = @ + 1]
           ELSE sc' = [sc EXCEPT
                         !.pc = "crawl",
                         !.emails = {},
                         !.visited_urls = IF sc.mode = "app" THEN {} ELSE @,
                         !.stack = <<Frame(data.website, 0)>>]
    /\ UNCHANGED <<store, outputs, w, d, env, jobs, fp, h, gets>>

\* scrape_page(url, max_depth, current_depth) up to its loop over the links
SeqScrapePage ==
    /\ sc.phase = "seq"
    /\ sc.pc = "crawl"
    /\ sc.stack # <<>>
    /\ Top.st = "call"
    /\ LET url == Top.url
           web == RunWeb
           counted == SetDomainCount(sc.scraped_domains, GetDomain(url),
                                     DomainCount(sc.scraped_domains, GetDomain(url)) + 1)
       IN  IF \/ Top.depth > ScrapeDepth
              \/ url \in sc.visited_urls
              \/ IsBlockedDomainSeq(url)
              \/ ShouldSkipUrl(url)
              \/ ~CanScrapeDomain(sc.scraped_domains, url)
              \/ ~IsAllowedByRobots(web, url)
           THEN /\ sc' = [sc EXCEPT !.stack = Pop]
                /\ gets' = gets
           ELSE /\ gets' = [gets EXCEPT ![sc.row] = BagAdd(gets[sc.row], url)]
                /\ IF ~PageOf(web, url).ok
                   THEN sc' = [sc EXCEPT !.visited_urls = @ \cup {url},
                                         !.scraped_domains = counted,
                                         !.stack = Pop]
                   ELSE IF Top.depth < ScrapeDepth /\ CanScrapeDomain(counted, url)
                   THEN \E links \in InternalLinkSets(web, counted, url) :
                           sc' = [sc EXCEPT
                                    !.visited_urls = @ \cup {url},
                                    !.scraped_domains = counted,
                                    !.emails = @ \cup ExtractEmails(PageOf(web, url).text),
                                    !.stack = Pop \o <<[Top EXCEPT !.st = "links",
                                                                   !.links = links]>>]
                   ELSE sc' = [sc EXCEPT
                                 !.visited_urls = @ \cup {url},
                                 !.scraped_domains = counted,
                                 !.emails = @ \cup ExtractEmails(PageOf(web, url).text),
                                 !.stack = Pop]
    /\ UNCHANGED <<store, outputs, w, d, env, jobs, fp, h>>

\* for link in internal_links: if self.can_scrape_domain(link): scrape_page(...)
SeqNextLink ==
    /\ sc.phase = "seq"
    /\ sc.pc = "crawl"
    /\ sc.stack # <<>>
    /\ Top.st = "links"
    /\ IF Top.links = {}
       THEN sc' = [sc EXCEPT !.stack = Pop]
       ELSE \E link \in Top.links :
               LET rest == Pop \o <<[Top EXCEPT !.links = @ \ {link}]>>
               IN  IF CanScrapeDomain(sc.scraped_domains, link)
                   THEN sc' = [sc EXCEPT !.stack = rest \o <<Frame(link, Top.depth + 1)>>]
                   ELSE sc' = [sc EXCEPT !.stack = rest]
    /\ UNCHANGED <<store, outputs, w, d, env, jobs, fp, h, gets>>

\* scrape_page has returned: one record per email, or 'No email found'
SeqRowEnd ==
    /\ sc.phase = "seq"
    /\ sc.pc = "crawl"
    /\ sc.stack = <<>>
    /\ LET data == sc.websites_data[sc.row]
           rows == IF sc.emails # {}
                   THEN [k \in 1..Cardinality(sc.emails) |->
                           SeqRecord(sc.mode, sc.row, data, data.website, SetToSeq(sc.emails)[k])]
                   ELSE <<SeqRecord(sc.mode, sc.row, data, data.website,
                                    <<"No", " email found">>)>>
       IN  sc' = [sc EXCEPT !.pc = "row", !.row = @ + 1, !.results = @ \o rows]
    /\ UNCHANGED <<store, outputs, w, d, env, jobs, fp, h, gets>>

\* the loop over the rows has ended
SeqFinish ==
    /\ sc.phase = "seq"
    /\ sc.pc = "row"
    /\ sc.row > Len(sc.websites_data)
    /\ sc' = [sc EXCEPT !.pc = "finished"]
    /\ UNCHANGED <<store, outputs, w, d, env, jobs, fp, h, gets>>

\* the websites of the rows: with their scheme, as the sequential mode does
\* not prefix one
SeqWebsites ==
    {NaN, <<"https://", "acme.org">>, <<"https://", "www.", "acme.org">>, <<"acme.org">>,
     <<"https://", "void.net">>, <<"https://", "hibid.com">>}

\* rows that all name the deep site: one more than the domain limit allows
\* at ScrapeDepth + 1 pages each
SameSiteRows ==
    [i \in 1..((MAX_URLS_PER_DOMAIN \div (ScrapeDepth + 1)) + 1) |->
        Target(i, <<"https://", "deep.org">>)]

SeqScenarios ==
    {[web |-> "small", websites_data |-> ws, mode |-> mode] :
        ws \in TargetLists(SeqWebsites, MaxTargets), mode \in {"app", "main"}}
    \cup {[web |-> "deep", websites_data |-> SameSiteRows, mode |-> mode] :
            mode \in {"app", "main"}}

InitSeq ==
    /\ store = NoJob
    /\ outputs = [name \in {PartialName, ScrapedName} |-> NoFile]
    /\ w = InitW
    /\ d = InitD
    /\ env = [readable |-> TRUE]
    /\ h = InitH
    /\ fp = NoPhoneCall
    /\ jobs = NoJobs
    /\ \E scenario \in SeqScenarios :
          /\ sc = [phase |-> "seq", mode |-> scenario.mode, web |-> scenario.web,
                   down |-> <<>>, websites_data |-> scenario.websites_data,
                   pc |-> "row", row |-> 1, emails |-> {}, visited_urls |-> {},
                   scraped_domains |-> {}, stack |-> <<>>, results |-> <<>>]
          /\ gets = [i \in 1..Len(scenario.websites_data) |-> {}]

NextSeq ==
    \/ SeqRow
    \/ SeqScrapePage
    \/ SeqNextLink
    \/ SeqRowEnd
    \/ SeqFinish

SpecSeq == InitSeq /\ [][NextSeq]_vars

\* C23: in both fetch modes no page request is issued for a URL that the
\* robots.txt of its host disallows for the user agent.
C23_NoDisallowedRequest ==
    sc.phase # "none" =>
        \A i \in Targets : \A url \in Requested(i) : ~Disallowed(WebOf(sc.web), url)

\* the addresses (or the sentinel) of the records of row i
SeqEmailsOf(i) ==
    {sc.results[k].Email : k \in {k \in 1..Len(sc.results) :
                                     sc.results[k].Company = sc.websites_data[i].company}}

\* C32: every URL of a frontier of depth 1 or more, and every URL a session
\* requests other than its root, has the domain of the root and a path that
\* does not end in an extension of skip_extensions.
C32_FrontierSameDomainNoMedia ==
    sc.phase \in {"gather", "returned"} =>
        \A i \in Targets :
            \A url \in (IF sc.t[i].depth >= 1 THEN sc.t[i].current_depth_urls ELSE {})
                        \cup (Requested(i) \ {sc.t[i].base_url}) :
                /\ GetDomain(url) = GetDomain(sc.t[i].base_url)
                /\ ~ShouldSkipUrl(url)

\* C26: in the sequential mode the visited set and the per-domain count are
\* empty when the crawl of a target starts, and a later row naming the same
\* website as an earlier one gets the same addresses.
C26_SessionResetPerTarget ==
    sc.phase = "seq" =>
        /\ (sc.pc = "crawl" /\ sc.stack = <<Frame(sc.websites_data[sc.row].website, 0)>>) =>
              sc.visited_urls = {} /\ sc.scraped_domains = {}
        /\ \A i \in 1..(sc.row - 1) : \A j \in (i + 1)..(sc.row - 1) :
              sc.websites_data[i].website = sc.websites_data[j].website =>
                  SeqEmailsOf(i) = SeqEmailsOf(j)

\* C33: a run that ends failed with accumulated records has persisted them to
\* an output artefact that output_file names; a run that ends failed without
\* accumulated records has written no artefact and left output_file unset.
C33_FailedRunKeepsRecords ==
    (w.pc = "done" /\ store.exists /\ store.status = "failed") =>
        IF w.all_results # <<>>
        THEN /\ store.output_file \in DOMAIN outputs
             /\ outputs[store.output_file].written
             /\ outputs[store.output_file].rows = w.all_results
        ELSE /\ \A name \in DOMAIN outputs : ~outputs[name].written
             /\ store.output_file = "None"

\* C34: a job record with a terminal status is well formed in every state:
\* completed_at is set; a completed record names the full output and has
\* progress 100; a stopped record of a run that had accumulated at least one
\* record names the partial output.
C34_TerminalRecordWellFormed ==
    (store.exists /\ store.status \in Terminal) =>
        /\ store.completed_at # "None"
        /\ store.status = "completed" =>
              /\ store.output_file = "scraped_" \o store.filename
              /\ store.progress = [n |-> 100, d |-> 1]
        /\ (store.status = "stopped" /\ w.all_results # <<>>) =>
              store.output_file = "partial_" \o store.filename

\* C35: in every job record seen while the job is processing or paused the
\* reported row offset does not exceed the reported row count.
C35_CurrentRowWithinTotal ==
    (store.exists /\ store.status \in {"processing", "paused"}) =>
        store.current_row <= store.total_rows

\* C36: the worker leaves the pause poll to go on with the sheet only when the
\* last control value the dashboard set for the job is run; a deletion of the
\* record while the job is paused does not make it resume.
C36_ResumeOnlyOnRun ==
    [][(w.pc = "pause_poll" /\ w'.pc \notin {"pause_poll", "stop"}) =>
            h.last_set = "run"]_vars

\* C37: once delete_job has removed the record of a job, no record of that
\* job exists again.
C37_DeletedStaysDeleted ==
    h.deleted => ~store.exists

-----------------------------------------------------------------------------
(* SpecQueue: worker_loop over a jobs directory in which jobs keep being     *)
(* created and finished jobs are deleted. jobs.dir holds the job files in    *)
(* order of created_at, oldest first; store is the file of the job the      *)
(* worker runs (job jobs.focus), written back to jobs.dir when the worker    *)
(* turns to the next job. At most MaxJobs files exist at a time.            *)

\* the status in the file of a job
QueueStatus(job_id) ==
    IF job_id = jobs.focus
    THEN (IF store.exists THEN store.status ELSE "None")
    ELSE jobs.dir[job_id].status

\* get_pending_jobs
QueuePending == {job_id \in DOMAIN jobs.dir : QueueStatus(job_id) = "pending"}

\* the list without its element at position job_id
ListWithout(list, job_id) ==
    [k \in 1..(Len(list) - 1) |-> IF k < job_id THEN list[k] ELSE list[k + 1]]

\* worker_loop: job = get_pending_jobs()[0]; asyncio.run(process_job_async).
\* get_all_jobs sorts by created_at with reverse = True, so element 0 is the
\* pending job created last
QueuePick ==
    /\ w.pc \in {"idle", "done"}
    /\ QueuePending # {}
    /\ LET job_id == CHOOSE job_id \in QueuePending : \A other \in QueuePending : other <= job_id
           dir == IF jobs.focus = 0 THEN jobs.dir
                  ELSE [jobs.dir EXCEPT ![jobs.focus] = store]
       IN  /\ store' = dir[job_id]
           /\ jobs' = [jobs EXCEPT !.dir = dir, !.focus = job_id]
    /\ w' = [InitW EXCEPT !.pc = "start"]
    /\ h' = InitH
    /\ UNCHANGED <<outputs, d, env, fp, sc, gets>>

\* delete_job of a job whose run has ended
DeleteFinished(job_id) ==
    /\ QueueStatus(job_id) \in Terminal
    /\ job_id = jobs.focus => w.pc = "done"
    /\ jobs' = [jobs EXCEPT !.dir = ListWithout(jobs.dir, job_id),
                            !.focus = IF job_id = @ THEN 0
                                      ELSE IF job_id < @ THEN @ - 1 ELSE @]
    /\ store' = IF job_id = jobs.focus THEN NoJob ELSE store
    /\ UNCHANGED <<outputs, w, d, env, fp, h, sc, gets>>

NextQueue ==
    \/ \E filename \in Filenames, selected_sheets \in SeqsUpTo({0}, MaxSheets) \ {<<>>} :
          CreateJob(filename, selected_sheets)
    \/ \E job_id \in DOMAIN jobs.dir : DeleteFinished(job_id)
    \/ QueuePick
    \/ ProcessJobStart
    \/ UpdateJobRead
    \/ UpdateJobWrite
    \/ OpenExcel
    \/ SheetCheckpoint
    \/ SheetProgress
    \/ ParseSheet
    \/ BatchCheckpoint
    \/ ScrapeBatch
    \/ BatchReturn
    \/ SaveFinal

(* worker_loop is a running process: a pick that stays possible is made and
   a step of the run that stays possible is taken, so every job run
   terminates. The dashboard is a user: no creation and no deletion is ever
   required. *)
SpecQueue ==
    /\ InitFiles /\ [][NextQueue]_vars
    /\ WF_vars(WorkerStep) /\ WF_vars(QueuePick) /\ EveryFetchReturns

OldestWaits ==
    /\ Len(jobs.dir) >= 1 /\ jobs.focus # 1
    /\ jobs.dir[1].status = "pending"

\* C38: a job created pending is eventually picked up by worker_loop and set
\* to processing, also while newer jobs keep being created (stated for the
\* oldest job of the directory).
C38_PendingEventuallyPicked ==
    OldestWaits ~> (jobs.focus = 1 /\ store.exists /\ store.status = "processing")

-----------------------------------------------------------------------------
(* SpecOrder: the order of the records, in one call of                      *)
(* scrape_multiple_websites (the behaviours of SpecScrape) and in the        *)
(* accumulated list of a run of the worker (the behaviours of SpecRun).      *)

InitOrder == InitScrape \/ InitJob

NextOrder ==
    \/ sc.phase # "none" /\ NextScrape
    \/ NextRun

SpecOrder == InitOrder /\ [][NextOrder]_vars

\* the target a returned record belongs to
TargetOf(row) == CHOOSE i \in Targets : sc.websites_data[i].company = row.Company

\* the batches scraped so far, in processing order: by sheet, then by offset
ScrapedInOrder ==
    CHOOSE s \in [1..Cardinality(h.scraped) -> h.scraped] :
        \A k, l \in DOMAIN s :
            k < l => \/ s[k][1] < s[l][1]
                     \/ s[k][1] = s[l][1] /\ s[k][2] < s[l][2]

\* the records of the batch at offset batch_start of the sheet_num-th sheet
BatchRecords(sheet_num, batch_start) ==
    LET sheet == Workbook[w.job.selected_sheets[sheet_num + 1] + 1]
        batch_end == IF batch_start + BatchSize < sheet.nrows
                     THEN batch_start + BatchSize ELSE sheet.nrows
    IN  ScrapeMultipleWebsites(JobWeb, SubSeq(WebsitesData(sheet), batch_start + 1, batch_end))

\* C39: the result list is ordered by input. In the list a call returns, the
\* records of target i come before those of target j for i < j, whichever
\* session returned first; the accumulated list of a run is the records of
\* its batches one after the other, by sheet and by offset in the sheet.
C39_ResultsInInputOrder ==
    /\ sc.phase = "returned" =>
          \A p, q \in 1..Len(sc.results) :
              p < q => TargetOf(sc.results[p]) <= TargetOf(sc.results[q])
    /\ w.job.exists =>
          w.all_results =
              Flatten([k \in 1..Cardinality(h.scraped) |->
                          BatchRecords(ScrapedInOrder[k][1], ScrapedInOrder[k][2])])

C39_Witness ==
    /\ sc.phase = "returned" /\ Len(sc.websites_data) = 2
    /\ sc.order = <<2, 1>>
    /\ RowsOf(1) # <<>> /\ RowsOf(2) # <<>>
    /\ sc.results = RowsOf(1) \o RowsOf(2)
====
